---- MODULE Spec2Model ----
(***************************************************************************)
(* Host-side driver of the Marlin binary transfer protocol                 *)
(* (src/binproto2/protocols.py): the frame builder and its checksum, the   *)
(* Transport (class Protocol) with its send/ack loop and receive worker,   *)
(* and the file-transfer application (class FileTransferProtocol).         *)
(*                                                                         *)
(* Bytes are integers 0..255, byte strings are sequences of bytes, text is *)
(* a sequence of one-character strings.                                    *)
(***************************************************************************)
EXTENDS Integers, Sequences, FiniteSets, TLC

VARIABLES
    \* ---- class Protocol: the object's fields
    sync,              \* self.sync
    errors,            \* self.errors
    max_block_size,    \* self.max_block_size
    block_size,        \* self.block_size
    synchronized,      \* self.synchronized
    connected,         \* self.connected
    protocol_version,  \* self.protocol_version ("unset" until a stream sync)
    responses,         \* self.responses, a deque of <<token, data>>
    applications,      \* self.applications, a list of [tokens, callback]
    packet_transit,    \* self.packet_transit ("unset", None or a frame)
    packet_status,     \* self.packet_status ("unset", 0 or 1)
    transmit_attempt,  \* self.transmit_attempt
    simulate_errors,   \* self.simulate_errors > 0
    \* ---- the send task inside Protocol._send
    pc,                \* "idle", "loop", "await", "drain", "done", "raised"
    exc,               \* the exception that left _send, or "none"
    timeout,           \* _send's _TimeOut: response timeouts elapsed since it was made
    sends,             \* number of _send calls made so far
    \* ---- the ByteLink (self.port) and the handlers of registered test applications
    port_out,          \* what the current call has written to a port that no peer reads
    handled,           \* calls made to handlers other than the two _process_input
    \* ---- what the current _send call was entered with
    call,              \* its arguments and the Transport state it found
    processed,         \* the last response it took from the queue; whether it handled a stream sync
    \* ---- class FileTransferProtocol: the object's fields
    ft_responses,      \* self.responses, a deque of <<token, data>>
    ft_compression,    \* self.compression['algorithm'] (<<>> until connect sets it)
    ft_version,        \* self.version (<<>> until connect sets it)
    \* ---- the task inside FileTransferProtocol.copy
    ft_pc,             \* where copy is: "start", "connect", ..., "done", "raised"
    ft_exc,            \* the exception that left copy, or "none"
    ft_timeout,        \* open's _TimeOut(5000): seconds elapsed since it was made or reset
    ft_token,          \* token, local to open and to close (<<>> for None)
    ft_data,           \* data, the bytes read from the file
    ft_i,              \* number of write calls of the loop over range(blocks)
    ft_log,            \* what self.logger has been given, in order
    ft_calls,          \* the protocol._send calls copy has made, in order
    \* ---- the peer
    lines_in,          \* number of lines taken from an unconstrained peer
    peer_sync,         \* the sync id the peer expects next
    peer_accepted,     \* the packets the peer has accepted, in order
    peer_out,          \* lines the peer has written that readline() has not returned yet
    \* ---- the receive task, the ByteLink and the caller of the Transport's methods
    worker,            \* where _receive_worker is: "test", "readline", "reconnect",
                       \* "exited" (returned) or "raised" (ConnectionLost left it)
    attempt,           \* number of failed reopen attempts of reconnect() (0 outside it)
    port,              \* self.port: "open" or "closed"
    api                \* where the caller of connect, disconnect or shutdown is

tvars == <<sync, errors, max_block_size, block_size, synchronized, connected,
           protocol_version, responses, applications, packet_transit,
           packet_status, transmit_attempt, simulate_errors>>
svars == <<pc, exc, timeout, sends>>
lvars == <<port_out, handled>>
hvars == <<call, processed>>
pvars == <<lines_in, peer_sync, peer_accepted, peer_out>>
fvars == <<ft_compression, ft_version, ft_pc, ft_exc, ft_timeout, ft_token, ft_data,
           ft_i, ft_log, ft_calls>>
wvars == <<worker, attempt, port, api>>
xvars == <<ft_responses, fvars, pvars, wvars>>
vars  == <<tvars, svars, lvars, hvars, xvars>>

----------------------------------------------------------------------------
(* Bounds of the model *)

\* _send calls per behaviour
MaxSends == 2
\* lines the peer sends per behaviour
MaxLines == 3
\* lines the receive worker may have queued and not yet drained
MaxQueue == 2
\* value at which the error counter stops the model
MaxErrors == 3
\* payload length of the frames built from arbitrary Transport states
MaxPayload == 2

----------------------------------------------------------------------------
(* Byte helpers *)

Byte == 0..255

\* struct.pack("<H", value)
_pack_int16(value) == <<value % 256, (value \div 256) % 256>>

\* struct.pack("<B", value)
_pack_int8(value) == <<value>>

\* ((vh & 0xF) << 4) | (vl & 0xF)
_pack_int4_2(vh, vl) == <<((vh % 16) * 16) + (vl % 16)>>

\* the inner function of _build_checksum
checksum(cs, value) ==
    LET cs_low == ((cs % 256) + value) % 255
    IN  ((((cs \div 256) + cs_low) % 255) * 256) + cs_low

RECURSIVE checksum_loop(_, _, _)
checksum_loop(buffer, i, cs) ==
    IF i > Len(buffer) THEN cs
    ELSE checksum_loop(buffer, i + 1, checksum(cs, buffer[i]))

\* a checksum that forgets the second (position-dependent) sum
_build_checksum_low_only(buffer) == checksum_loop(buffer, 1, 0) % 256

_build_checksum(buffer) == checksum_loop(buffer, 1, 0)

PACKET_TOKEN == 46509   \* 0xB5AD

----------------------------------------------------------------------------
(* Text helpers: Python's str operations on sequences of characters *)

Digits == <<"0", "1", "2", "3", "4", "5", "6", "7", "8", "9">>
DigitSet == {Digits[i] : i \in 1..10}
DigitVal(c) == (CHOOSE i \in 1..10 : Digits[i] = c) - 1
Whitespace == {" ", "\t", "\n", "\r"}

\* str.rstrip()
RECURSIVE rstrip(_)
rstrip(s) ==
    IF s # <<>> /\ s[Len(s)] \in Whitespace THEN rstrip(SubSeq(s, 1, Len(s) - 1))
    ELSE s

\* str.lstrip()
RECURSIVE lstrip(_)
lstrip(s) ==
    IF s # <<>> /\ s[1] \in Whitespace THEN lstrip(Tail(s))
    ELSE s

RECURSIVE digits_value(_, _)
digits_value(s, acc) ==
    IF s = <<>> THEN acc
    ELSE digits_value(Tail(s), (acc * 10) + DigitVal(s[1]))

\* int(text): surrounding whitespace and one sign are accepted, then decimal
\* digits; anything else is a ValueError
int(s) ==
    LET t      == rstrip(lstrip(s))
        signed == t # <<>> /\ t[1] \in {"+", "-"}
        body   == IF signed THEN Tail(t) ELSE t
    IN  IF body = <<>> \/ \E i \in 1..Len(body) : body[i] \notin DigitSet
        THEN [raised |-> "ValueError", value |-> 0]
        ELSE [raised |-> "none",
              value  |-> IF signed /\ t[1] = "-" THEN 0 - digits_value(body, 0)
                         ELSE digits_value(body, 0)]

\* str.split(sep) for a one-character separator
RECURSIVE split_loop(_, _, _, _)
split_loop(s, sep, cur, acc) ==
    IF s = <<>> THEN Append(acc, cur)
    ELSE IF s[1] = sep THEN split_loop(Tail(s), sep, <<>>, Append(acc, cur))
    ELSE split_loop(Tail(s), sep, Append(cur, s[1]), acc)

split(s, sep) == split_loop(s, sep, <<>>, <<>>)

\* data[:n] and data[n:]
Take(s, n) == SubSeq(s, 1, IF n < Len(s) THEN n ELSE Len(s))
Drop(s, n) == SubSeq(s, n + 1, Len(s))

----------------------------------------------------------------------------
(* Protocol._build_packet *)

\* a builder that checksums the payload alone
_build_packet_payload_only_checksum(protocol, packet_type, data) ==
    IF Len(data) > max_block_size
    THEN [raised |-> "PayloadOverflow", packet |-> <<>>]
    ELSE LET header == _pack_int8(sync) \o _pack_int4_2(protocol, packet_type)
                       \o _pack_int16(Len(data))
             with_h == header \o _pack_int16(_build_checksum(header))
         IN  [raised |-> "none",
              packet |-> _pack_int16(PACKET_TOKEN) \o
                         (IF Len(data) > 0
                          THEN with_h \o data \o _pack_int16(_build_checksum(data))
                          ELSE with_h)]

\* a builder without the size check
_build_packet_unchecked(protocol, packet_type, data) ==
    LET header == _pack_int8(sync) \o _pack_int4_2(protocol, packet_type)
                  \o _pack_int16(Len(data))
        with_h == header \o _pack_int16(_build_checksum(header))
        full   == IF Len(data) > 0
                  THEN with_h \o data \o _pack_int16(_build_checksum(with_h \o data))
                  ELSE with_h
    IN  [raised |-> "none", packet |-> _pack_int16(PACKET_TOKEN) \o full]

\* The checksum of the payload part runs over the whole buffer built so far:
\* the 4 header bytes, the 2 bytes of the header checksum, and the payload.
_build_packet(protocol, packet_type, data) ==
    IF Len(data) > max_block_size
    THEN [raised |-> "PayloadOverflow", packet |-> <<>>]
    ELSE IF sync \notin Byte \/ Len(data) > 65535
    THEN [raised |-> "struct.error", packet |-> <<>>]
    ELSE LET header == _pack_int8(sync) \o _pack_int4_2(protocol, packet_type)
                       \o _pack_int16(Len(data))
             with_h == header \o _pack_int16(_build_checksum(header))
             full   == IF Len(data) > 0
                       THEN with_h \o data \o _pack_int16(_build_checksum(with_h \o data))
                       ELSE with_h
         IN  [raised |-> "none", packet |-> _pack_int16(PACKET_TOKEN) \o full]

\* The receiving side of the wire format: start token, the 4 header bytes and
\* their checksum, then for a non-empty payload the payload and the checksum
\* of everything after the start token.
parse_packet(frame) ==
    LET invalid == [valid |-> FALSE, sync |-> 0, protocol |-> 0,
                    packet_type |-> 0, data |-> <<>>]
    IN  IF Len(frame) < 8 \/ SubSeq(frame, 1, 2) # _pack_int16(PACKET_TOKEN)
        THEN invalid
        ELSE LET header == SubSeq(frame, 3, 6)
                 length == frame[5] + (256 * frame[6])
                 parsed == [valid |-> TRUE, sync |-> frame[3],
                            protocol |-> frame[4] \div 16,
                            packet_type |-> frame[4] % 16,
                            data |-> SubSeq(frame, 9, 8 + length)]
             IN  IF SubSeq(frame, 7, 8) # _pack_int16(_build_checksum(header))
                 THEN invalid
                 ELSE IF length = 0
                 THEN (IF Len(frame) = 8 THEN parsed ELSE invalid)
                 ELSE IF Len(frame) # 10 + length
                 THEN invalid
                 ELSE IF SubSeq(frame, 9 + length, 10 + length)
                         # _pack_int16(_build_checksum(SubSeq(frame, 3, 8 + length)))
                 THEN invalid
                 ELSE parsed

----------------------------------------------------------------------------
(* Response tokens and the registrations *)

TOK_ok == <<"o", "k">>
TOK_rs == <<"r", "s">>
TOK_ss == <<"s", "s">>
TOK_fe == <<"f", "e">>
PFT_success == <<"P", "F", "T", ":", "s", "u", "c", "c", "e", "s", "s">>
PFT_version == <<"P", "F", "T", ":", "v", "e", "r", "s", "i", "o", "n", ":">>
PFT_fail    == <<"P", "F", "T", ":", "f", "a", "i", "l">>
PFT_busy    == <<"P", "F", "T", ":", "b", "u", "s", "y">>
PFT_ioerror == <<"P", "F", "T", ":", "i", "o", "e", "r", "r", "o", "r">>
PTF_invalid == <<"P", "T", "F", ":", "i", "n", "v", "a", "l", "i", "d">>
PFT_invalid == <<"P", "F", "T", ":", "i", "n", "v", "a", "l", "i", "d">>

\* Protocol.__init__: self.register(['ok', 'rs', 'ss', 'fe'], self._process_input)
ProtocolRegistration ==
    [tokens |-> <<TOK_ok, TOK_rs, TOK_ss, TOK_fe>>, callback |-> "Protocol._process_input"]

\* a FileTransferProtocol that registers its tokens with the Transport's callback
FileTransferRegistration_transport_callback ==
    [tokens |-> <<PFT_success, PFT_version, PFT_fail, PFT_busy, PFT_ioerror, PTF_invalid>>,
     callback |-> "Protocol._process_input"]

\* FileTransferProtocol.__init__: protocol.register([...], self._process_input)
FileTransferRegistration ==
    [tokens |-> <<PFT_success, PFT_version, PFT_fail, PFT_busy, PFT_ioerror, PTF_invalid>>,
     callback |-> "FileTransferProtocol._process_input"]

\* the inner loop of dispatch: the first token of the list that starts data
RECURSIVE token_loop(_, _, _)
token_loop(tokens, j, data) ==
    IF j > Len(tokens) THEN 0
    ELSE IF tokens[j] = Take(data, Len(tokens[j])) THEN j
    ELSE token_loop(tokens, j + 1, data)

\* a dispatch that tries the registrations last to first
RECURSIVE dispatch_loop_reversed(_, _, _)
dispatch_loop_reversed(apps, i, data) ==
    LET k == (Len(apps) + 1) - i
    IN  IF i > Len(apps)
        THEN [found |-> FALSE, callback |-> "none", token |-> <<>>, rest |-> <<>>]
        ELSE LET j == token_loop(apps[k].tokens, 1, data)
             IN  IF j > 0
                 THEN [found |-> TRUE, callback |-> apps[k].callback,
                       token |-> apps[k].tokens[j],
                       rest |-> Drop(data, Len(apps[k].tokens[j]))]
                 ELSE dispatch_loop_reversed(apps, i + 1, data)

\* dispatch(data) in _receive_worker: the outer loop, returning at the first match
RECURSIVE dispatch_loop(_, _, _)
dispatch_loop(apps, i, data) ==
    IF i > Len(apps)
    THEN [found |-> FALSE, callback |-> "none", token |-> <<>>, rest |-> <<>>]
    ELSE LET j == token_loop(apps[i].tokens, 1, data)
         IN  IF j > 0
             THEN [found |-> TRUE, callback |-> apps[i].callback,
                   token |-> apps[i].tokens[j],
                   rest |-> Drop(data, Len(apps[i].tokens[j]))]
             ELSE dispatch_loop(apps, i + 1, data)

dispatch(data) == dispatch_loop(applications, 1, data)

----------------------------------------------------------------------------
(* Protocol._send and what it calls: the send task *)

\* timeout = _TimeOut(self.response_timeout * 20)
OuterFactor == 20

\* self.packet_transit = None: no frame
None == <<>>

\* _TimeOut.timedout() of _send's timer, whose clock counts response timeouts
timedout == timeout >= OuterFactor

\* The clock after a wait of _await_response has expired: the wait lasted one
\* response timeout, or (a slow wait) until the outer deadline.
Elapsed(t) == {IF t + 1 < OuterFactor THEN t + 1 ELSE OuterFactor, OuterFactor}

Raise(e) == pc' = "raised" /\ exc' = e

\* _send up to its loop: build the frame (which may raise), reset the status
\* and the attempt count, start the outer timer. The caller's own variables,
\* its count of calls and the port are left to the caller's action.
_send(protocol, packet_type, data) ==
    /\ pc \in {"idle", "done", "raised"}
    /\ call' = [protocol |-> protocol, packet_type |-> packet_type, data |-> data,
                sync |-> sync, max_block_size |-> max_block_size, errors |-> errors]
    /\ processed' = [last |-> <<>>, ss |-> FALSE]
    /\ LET built == _build_packet(protocol, packet_type, data)
       IN  IF built.raised # "none"
           THEN /\ Raise(built.raised)
                /\ UNCHANGED <<packet_transit, packet_status, transmit_attempt, timeout>>
           ELSE /\ packet_transit' = built.packet
                /\ packet_status' = 0
                /\ transmit_attempt' = 0
                /\ timeout' = 0
                /\ pc' = "loop"
                /\ exc' = "none"
    /\ UNCHANGED <<sync, errors, max_block_size, block_size, synchronized, connected,
                   protocol_version, responses, applications, simulate_errors>>

\* the loop of _send is left: while self.packet_status == 0 fails
_send_return ==
    /\ pc = "loop"
    /\ packet_status # 0
    /\ packet_transit' = None
    /\ pc' = "done"
    /\ UNCHANGED <<sync, errors, max_block_size, block_size, synchronized, connected,
                   protocol_version, responses, applications, packet_status,
                   transmit_attempt, simulate_errors, exc, timeout, sends>>
    /\ UNCHANGED <<lvars, hvars, xvars>>

\* a deadline that returns, as send_ascii's does, instead of raising
_send_deadline_returns ==
    /\ pc = "loop"
    /\ packet_status = 0
    /\ timedout
    /\ pc' = "done"
    /\ exc' = exc
    /\ UNCHANGED <<tvars, timeout, sends, lvars, hvars, xvars>>

\* if timeout.timedout(): raise ConnectionLost()
_send_connection_lost ==
    /\ pc = "loop"
    /\ packet_status = 0
    /\ timedout
    /\ Raise("ConnectionLost")
    /\ UNCHANGED <<tvars, timeout, sends, lvars, hvars, xvars>>

\* data[rid] ^= 0xAA for one byte value
xor_AA(b) ==
    LET bit(v, k) == (v \div k) % 2
        flip(k)   == IF bit(170, k) = 1 THEN 1 - bit(b, k) ELSE bit(b, k)
    IN  flip(1) + (2 * flip(2)) + (4 * flip(4)) + (8 * flip(8)) + (16 * flip(16))
        + (32 * flip(32)) + (64 * flip(64)) + (128 * flip(128))

\* corrupt_array: one byte of the frame, at a random index, xor 0xAA
corrupt_array(data) ==
    {[i \in 1..Len(data) |-> IF i = rid THEN xor_AA(data[i]) ELSE data[i]] :
        rid \in 1..Len(data)}

\* packet[:start] + packet[end:], start in 0..len(packet), end - start in 1..10
drop_bytes(packet) ==
    {SubSeq(packet, 1, start) \o SubSeq(packet, start + n + 1, Len(packet)) :
        start \in 0..Len(packet), n \in 1..10}

\* what _transmit_packet may hand to port.write
transmitted(packet) ==
    IF simulate_errors THEN {packet} \cup drop_bytes(packet) \cup corrupt_array(packet)
    ELSE {packet}

\* _transmit_packet but for self.port.write(packet), entered from the loop of
\* _send when the timer has not expired; the port and the peer are left to
\* the action that writes
transmit ==
    /\ pc = "loop"
    /\ packet_status = 0
    /\ ~timedout
    /\ port = "open"
    /\ transmit_attempt' = transmit_attempt + 1
    /\ pc' = "await"
    /\ UNCHANGED <<sync, errors, max_block_size, block_size, synchronized, connected,
                   protocol_version, responses, applications, packet_transit,
                   packet_status, simulate_errors, exc, timeout, sends, handled>>
    /\ UNCHANGED <<hvars, ft_responses, fvars, wvars>>

\* _transmit_packet on a port that no peer reads
_transmit_packet ==
    /\ transmit
    /\ \E packet \in transmitted(packet_transit) : port_out' = Append(port_out, packet)
    /\ UNCHANGED pvars

\* _await_response's first loop ends in ReadTimeout, which _send catches:
\* self.errors += 1 and the loop of _send goes round
_await_response_timeout ==
    /\ pc = "await"
    /\ responses = <<>>
    /\ errors < MaxErrors
    /\ errors' = errors + 1
    /\ timeout' \in Elapsed(timeout)
    /\ pc' = "loop"
    /\ UNCHANGED <<sync, max_block_size, block_size, synchronized, connected,
                   protocol_version, responses, applications, packet_transit,
                   packet_status, transmit_attempt, simulate_errors, exc, sends>>
    /\ UNCHANGED <<lvars, hvars, xvars>>

\* the second loop of _await_response pops the next response for a handler
Popped(token) ==
    /\ pc \in {"await", "drain"}
    /\ responses # <<>>
    /\ Head(responses)[1] = token
    /\ responses' = Tail(responses)

Handled == pc' = "drain" /\ exc' = exc

\* an _response_ok that takes any parseable id as the acknowledgement
_response_ok_any_id ==
    /\ Popped(TOK_ok)
    /\ processed' = [processed EXCEPT !.last = Head(responses)]
    /\ LET packet_id == int(Head(responses)[2])
       IN  IF packet_id.raised # "none"
           THEN Handled /\ UNCHANGED <<sync, packet_status>>
           ELSE /\ sync' = (sync + 1) % 256
                /\ packet_status' = 1
                /\ Handled
    /\ UNCHANGED <<errors, max_block_size, block_size, synchronized, connected,
                   protocol_version, applications, packet_transit, transmit_attempt,
                   simulate_errors, timeout, sends, call>>
    /\ UNCHANGED <<lvars, xvars>>

_response_ok ==
    /\ Popped(TOK_ok)
    /\ processed' = [processed EXCEPT !.last = Head(responses)]
    /\ LET packet_id == int(Head(responses)[2])
       IN  IF packet_id.raised # "none"
           THEN Handled /\ UNCHANGED <<sync, packet_status>>
           ELSE IF packet_id.value # sync
           THEN Raise("SynchronizationError") /\ UNCHANGED <<sync, packet_status>>
           ELSE /\ sync' = (sync + 1) % 256
                /\ packet_status' = 1
                /\ Handled
    /\ UNCHANGED <<errors, max_block_size, block_size, synchronized, connected,
                   protocol_version, applications, packet_transit, transmit_attempt,
                   simulate_errors, timeout, sends, call>>
    /\ UNCHANGED <<lvars, xvars>>

\* an _response_resend that raises on the matching id
_response_resend_raise_on_equal ==
    /\ Popped(TOK_rs)
    /\ errors < MaxErrors
    /\ processed' = [processed EXCEPT !.last = Head(responses)]
    /\ LET packet_id == int(Head(responses)[2])
       IN  IF packet_id.raised # "none"
           THEN Raise("ValueError") /\ UNCHANGED errors
           ELSE /\ errors' = errors + 1
                /\ IF synchronized /\ packet_id.value = sync
                   THEN Raise("SynchronizationError")
                   ELSE Handled
    /\ UNCHANGED <<sync, max_block_size, block_size, synchronized, connected,
                   protocol_version, applications, packet_transit, packet_status,
                   transmit_attempt, simulate_errors, timeout, sends, call>>
    /\ UNCHANGED <<lvars, xvars>>

\* int(data) is not guarded here: an unparseable id leaves as ValueError
_response_resend ==
    /\ Popped(TOK_rs)
    /\ errors < MaxErrors
    /\ processed' = [processed EXCEPT !.last = Head(responses)]
    /\ LET packet_id == int(Head(responses)[2])
       IN  IF packet_id.raised # "none"
           THEN Raise("ValueError") /\ UNCHANGED errors
           ELSE /\ errors' = errors + 1
                /\ IF ~synchronized
                   THEN Handled
                   ELSE IF packet_id.value # sync
                   THEN Raise("SynchronizationError")
                   ELSE Handled
    /\ UNCHANGED <<sync, max_block_size, block_size, synchronized, connected,
                   protocol_version, applications, packet_transit, packet_status,
                   transmit_attempt, simulate_errors, timeout, sends, call>>
    /\ UNCHANGED <<lvars, xvars>>

\* an _response_stream_sync that leaves self.block_size as it is
_response_stream_sync_uncapped ==
    /\ Popped(TOK_ss)
    /\ LET parts == split(Head(responses)[2], ",")
       IN  IF Len(parts) # 3
           THEN /\ Raise("ValueError")
                /\ processed' = [processed EXCEPT !.last = Head(responses)]
                /\ UNCHANGED <<sync, max_block_size, block_size, protocol_version,
                               packet_status, synchronized>>
           ELSE LET s == int(parts[1])
                    m == int(parts[2])
                IN  IF s.raised # "none"
                    THEN /\ Raise("ValueError")
                         /\ processed' = [processed EXCEPT !.last = Head(responses)]
                         /\ UNCHANGED <<sync, max_block_size, block_size,
                                        protocol_version, packet_status, synchronized>>
                    ELSE IF m.raised # "none"
                    THEN /\ Raise("ValueError")
                         /\ sync' = s.value
                         /\ processed' = [processed EXCEPT !.last = Head(responses)]
                         /\ UNCHANGED <<max_block_size, block_size, protocol_version,
                                        packet_status, synchronized>>
                    ELSE /\ sync' = s.value
                         /\ max_block_size' = m.value
                         /\ block_size' = block_size
                         /\ protocol_version' = parts[3]
                         /\ packet_status' = 1
                         /\ synchronized' = TRUE
                         /\ processed' = [last |-> Head(responses), ss |-> TRUE]
                         /\ Handled
    /\ UNCHANGED <<errors, connected, applications, packet_transit, transmit_attempt,
                   simulate_errors, timeout, sends, call>>
    /\ UNCHANGED <<lvars, xvars>>

\* the assignments run in order, so a ValueError of the second int() leaves
\* self.sync already set
_response_stream_sync ==
    /\ Popped(TOK_ss)
    /\ LET parts == split(Head(responses)[2], ",")
       IN  IF Len(parts) # 3
           THEN /\ Raise("ValueError")
                /\ processed' = [processed EXCEPT !.last = Head(responses)]
                /\ UNCHANGED <<sync, max_block_size, block_size, protocol_version,
                               packet_status, synchronized>>
           ELSE LET s == int(parts[1])
                    m == int(parts[2])
                IN  IF s.raised # "none"
                    THEN /\ Raise("ValueError")
                         /\ processed' = [processed EXCEPT !.last = Head(responses)]
                         /\ UNCHANGED <<sync, max_block_size, block_size,
                                        protocol_version, packet_status, synchronized>>
                    ELSE IF m.raised # "none"
                    THEN /\ Raise("ValueError")
                         /\ sync' = s.value
                         /\ processed' = [processed EXCEPT !.last = Head(responses)]
                         /\ UNCHANGED <<max_block_size, block_size, protocol_version,
                                        packet_status, synchronized>>
                    ELSE /\ sync' = s.value
                         /\ max_block_size' = m.value
                         /\ block_size' = IF m.value < block_size THEN m.value
                                          ELSE block_size
                         /\ protocol_version' = parts[3]
                         /\ packet_status' = 1
                         /\ synchronized' = TRUE
                         /\ processed' = [last |-> Head(responses), ss |-> TRUE]
                         /\ Handled
    /\ UNCHANGED <<errors, connected, applications, packet_transit, transmit_attempt,
                   simulate_errors, timeout, sends, call>>
    /\ UNCHANGED <<lvars, xvars>>

\* an _response_fatal_error that discards what is queued behind the response
_response_fatal_error_discards ==
    /\ pc \in {"await", "drain"}
    /\ responses # <<>>
    /\ Head(responses)[1] = TOK_fe
    /\ responses' = <<>>
    /\ processed' = [processed EXCEPT !.last = Head(responses)]
    /\ Raise("FatalError")
    /\ UNCHANGED <<sync, errors, max_block_size, block_size, synchronized, connected,
                   protocol_version, applications, packet_transit, packet_status,
                   transmit_attempt, simulate_errors, timeout, sends, call>>
    /\ UNCHANGED <<lvars, xvars>>

_response_fatal_error ==
    /\ Popped(TOK_fe)
    /\ processed' = [processed EXCEPT !.last = Head(responses)]
    /\ Raise("FatalError")
    /\ UNCHANGED <<sync, errors, max_block_size, block_size, synchronized, connected,
                   protocol_version, applications, packet_transit, packet_status,
                   transmit_attempt, simulate_errors, timeout, sends, call>>
    /\ UNCHANGED <<lvars, xvars>>

\* while len(self.responses) fails: _await_response returns to the loop of _send
_await_response_return ==
    /\ pc = "drain"
    /\ responses = <<>>
    /\ pc' = "loop"
    /\ UNCHANGED <<tvars, exc, timeout, sends, lvars, hvars, xvars>>

----------------------------------------------------------------------------
(* Protocol._receive_worker: the receive task *)

\* an undecodable byte of the input
BadByte == "0xFF"

\* bytes.decode('utf8') of a line of ASCII characters
decode(raw) ==
    IF \E i \in 1..Len(raw) : raw[i] = BadByte
    THEN [raised |-> "UnicodeDecodeError", text |-> <<>>]
    ELSE [raised |-> "none", text |-> raw]

\* a worker that counts the error of a resend request itself
receive_line_counts(raw) ==
    /\ LET decoded == decode(raw)
           data    == rstrip(decoded.text)
           found   == dispatch(data)
       IN  IF decoded.raised # "none" \/ Len(data) = 0 \/ ~found.found
           THEN UNCHANGED <<responses, ft_responses, handled>>
           ELSE IF found.callback = "Protocol._process_input"
           THEN /\ Len(responses) < MaxQueue
                /\ responses' = Append(responses, <<found.token, found.rest>>)
                /\ UNCHANGED <<ft_responses, handled>>
           ELSE IF found.callback = "FileTransferProtocol._process_input"
           THEN /\ Len(ft_responses) < MaxQueue
                /\ ft_responses' = Append(ft_responses, <<found.token, found.rest>>)
                /\ UNCHANGED <<responses, handled>>
           ELSE IF found.callback = "EchoProtocol._process_input"
           THEN UNCHANGED <<responses, ft_responses, handled>>
           ELSE /\ Len(handled) < MaxQueue
                /\ handled' = Append(handled, [callback |-> found.callback,
                                               token |-> found.token,
                                               rest |-> found.rest])
                /\ UNCHANGED <<responses, ft_responses>>
    /\ errors' = IF dispatch(rstrip(decode(raw).text)).found
                       /\ dispatch(rstrip(decode(raw).text)).token = TOK_rs
                    THEN errors + 1 ELSE errors
    /\ UNCHANGED <<sync, max_block_size, block_size, synchronized, connected,
                   protocol_version, applications, packet_transit, packet_status,
                   transmit_attempt, simulate_errors>>
    /\ UNCHANGED <<svars, port_out, hvars>>

\* The body of the worker's loop on the line readline() returned: decode,
\* rstrip, and for a non-empty line dispatch to the first matching
\* registration, whose callback runs here. A line that cannot be decoded only
\* resets the port's input buffer.
receive_line(raw) ==
    /\ LET decoded == decode(raw)
           data    == rstrip(decoded.text)
           found   == dispatch(data)
       IN  IF decoded.raised # "none" \/ Len(data) = 0 \/ ~found.found
           THEN UNCHANGED <<responses, ft_responses, handled>>
           ELSE IF found.callback = "Protocol._process_input"
           THEN /\ Len(responses) < MaxQueue
                /\ responses' = Append(responses, <<found.token, found.rest>>)
                /\ UNCHANGED <<ft_responses, handled>>
           ELSE IF found.callback = "FileTransferProtocol._process_input"
           THEN /\ Len(ft_responses) < MaxQueue
                /\ ft_responses' = Append(ft_responses, <<found.token, found.rest>>)
                /\ UNCHANGED <<responses, handled>>
           ELSE IF found.callback = "EchoProtocol._process_input"
           THEN UNCHANGED <<responses, ft_responses, handled>>
           ELSE /\ Len(handled) < MaxQueue
                /\ handled' = Append(handled, [callback |-> found.callback,
                                               token |-> found.token,
                                               rest |-> found.rest])
                /\ UNCHANGED <<responses, ft_responses>>
    /\ UNCHANGED <<sync, errors, max_block_size, block_size, synchronized, connected,
                   protocol_version, applications, packet_transit, packet_status,
                   transmit_attempt, simulate_errors>>
    /\ UNCHANGED <<svars, port_out, hvars>>

\* one round of the worker's loop, while self.connected: on the line raw
_receive_worker(raw) == connected /\ receive_line(raw)

----------------------------------------------------------------------------
(* The Transport alone: any caller, any peer *)

\* bsize given to Protocol.__init__
BlockSizeArgs == {2}

NoCall == [protocol |-> 0, packet_type |-> 0, data |-> <<>>,
           sync |-> 0, max_block_size |-> 0, errors |-> 0]

\* Protocol.__init__ followed by FileTransferProtocol.__init__
Constructed ==
    /\ sync = 0
    /\ errors = 0
    /\ max_block_size = 0
    /\ block_size \in BlockSizeArgs
    /\ synchronized = FALSE
    /\ connected = TRUE
    /\ protocol_version = "unset"
    /\ responses = <<>>
    /\ applications = <<ProtocolRegistration, FileTransferRegistration>>
    /\ packet_transit = "unset"
    /\ packet_status = "unset"
    /\ transmit_attempt = "unset"
    /\ simulate_errors = FALSE
    /\ ft_responses = <<>>
    /\ ft_compression = <<>>
    /\ ft_version = <<>>

\* Protocol.__init__ has opened the port and started the worker thread, which
\* reads; no method of the Transport has been called
Started ==
    /\ worker = "readline"
    /\ attempt = 0
    /\ port = "open"
    /\ api = "none"

\* no copy has been called, and the peer has seen nothing
NoTransfer ==
    /\ ft_pc = "start"
    /\ ft_exc = "none"
    /\ ft_timeout = 0
    /\ ft_token = <<>>
    /\ ft_data = <<>>
    /\ ft_i = 0
    /\ ft_log = <<>>
    /\ ft_calls = <<>>
    /\ lines_in = 0
    /\ peer_sync = 0
    /\ peer_accepted = <<>>
    /\ peer_out = <<>>

Init ==
    /\ Constructed
    /\ NoTransfer
    /\ Started
    /\ pc = "idle"
    /\ exc = "none"
    /\ timeout = 0
    /\ sends = 0
    /\ port_out = <<>>
    /\ handled = <<>>
    /\ call = NoCall
    /\ processed = [last |-> <<>>, ss |-> FALSE]

\* the calls the send task makes: the control packets and two data packets
SendArgs ==
    { [protocol |-> 0, packet_type |-> 1, data |-> <<>>],
      [protocol |-> 1, packet_type |-> 3, data |-> <<7>>],
      [protocol |-> 1, packet_type |-> 3, data |-> <<7, 8>>] }

\* the lines the peer may send, as readline() returns them
EnvLines ==
    { <<"s", "s", "0", ",", "2", ",", "2", ".", "0", "\n">>, <<"s", "s", "2", "5", "5", ",", "1", ",", "2", ".", "0", "\r", "\n">>, <<"o", "k", "0", "\n">>, <<"o", "k", "2", "5", "5", "\n">>, <<"o", "k", "\r", "\n">>,
      <<"r", "s", "0", "\n">>, <<"r", "s", "\n">>, <<"f", "e", "1", "\n">>, <<"P", "F", "T", ":", "b", "u", "s", "y", "\n">>,
      <<"e", "c", "h", "o", ":", "x", "\n">> }

\* a call of _send from outside; the port's record starts again with it
Send ==
    /\ sends < MaxSends
    /\ sends' = sends + 1
    /\ \E a \in SendArgs : _send(a.protocol, a.packet_type, a.data)
    /\ port_out' = <<>>
    /\ UNCHANGED <<handled, xvars>>

\* readline() returns the next line of the peer
Receive ==
    /\ lines_in < MaxLines
    /\ lines_in' = lines_in + 1
    /\ \E raw \in EnvLines : _receive_worker(raw)
    /\ UNCHANGED <<fvars, peer_sync, peer_accepted, peer_out, wvars>>

Next ==
    \/ Send
    \/ _send_return
    \/ _send_connection_lost
    \/ _transmit_packet
    \/ _await_response_timeout
    \/ _response_ok
    \/ _response_resend
    \/ _response_stream_sync
    \/ _response_fatal_error
    \/ _await_response_return
    \/ Receive

Spec == Init /\ [][Next]_vars

----------------------------------------------------------------------------
(* The frame builder alone: one _send from any synchronized Transport state *)

CodecSyncs == {0, 1, 127, 255}
CodecBytes == {0, 170, 255}

\* the byte strings of length n over CodecBytes
RECURSIVE PayloadsOfLen(_)
PayloadsOfLen(n) ==
    IF n = 0 THEN {<<>>}
    ELSE {Append(p, b) : p \in PayloadsOfLen(n - 1), b \in CodecBytes}

CodecPayloads == UNION {PayloadsOfLen(n) : n \in 0..MaxPayload}

\* a Transport that a stream sync has set up: any sync id, a small peer buffer
InitCodec ==
    /\ sync \in CodecSyncs
    /\ errors = 0
    /\ max_block_size \in 0..MaxPayload
    /\ block_size = max_block_size
    /\ synchronized = TRUE
    /\ connected = TRUE
    /\ protocol_version = <<"2", ".", "0">>
    /\ responses = <<>>
    /\ applications = <<ProtocolRegistration, FileTransferRegistration>>
    /\ packet_transit = None
    /\ packet_status = 1
    /\ transmit_attempt = 1
    /\ simulate_errors = FALSE
    /\ ft_responses = <<>>
    /\ ft_compression = <<>>
    /\ ft_version = <<>>
    /\ NoTransfer
    /\ Started
    /\ pc = "done"
    /\ exc = "none"
    /\ timeout = 0
    /\ sends = MaxSends - 1
    /\ port_out = <<>>
    /\ handled = <<>>
    /\ call = NoCall
    /\ processed = [last |-> <<>>, ss |-> FALSE]

SendAny ==
    /\ sends < MaxSends
    /\ sends' = sends + 1
    /\ \E protocol \in 0..15, packet_type \in 0..15, data \in CodecPayloads :
           _send(protocol, packet_type, data)
    /\ port_out' = <<>>
    /\ UNCHANGED <<handled, xvars>>

NextCodec == SendAny

SpecCodec == InitCodec /\ [][NextCodec]_vars

----------------------------------------------------------------------------
(* Claims *)

\* the 4 header bytes of the frame the current call asked for
CallHeader ==
    <<call.sync, (call.protocol * 16) + call.packet_type,
      Len(call.data) % 256, Len(call.data) \div 256>>

C1_SyncPlusOne ==
    (pc = "done" /\ ~processed.ss) => sync = (call.sync + 1) % 256

\* C2: a send whose payload is longer than the max_block_size it finds ends
\* with PayloadOverflow and writes nothing to the port
C2_OverflowWritesNothing ==
    (pc # "idle" /\ Len(call.data) > call.max_block_size) =>
        /\ pc = "raised"
        /\ exc = "PayloadOverflow"
        /\ port_out = <<>>

\* C2 witness: after a stream sync has set a non-zero max_block_size, a send
\* with a longer payload has ended
C2_Witness ==
    /\ pc = "raised"
    /\ exc = "PayloadOverflow"
    /\ synchronized
    /\ call.max_block_size > 0
    /\ Len(call.data) > call.max_block_size
    /\ port_out = <<>>

\* C5: while a send has handled no response, every frame it has written is
\* the frame in transit, each expired wait has counted one error and was
\* followed by the next transmission or by ConnectionLost, and the outer
\* deadline bounds the transmissions; at the deadline the send can only raise
\* ConnectionLost; ReadTimeout never leaves the send; and it returns normally
\* only with the packet acknowledged.
C5_TimeoutRetransmits ==
    /\ exc # "ReadTimeout"
    /\ pc = "done" => packet_status = 1
    /\ (pc \in {"loop", "await"} /\ processed.last = <<>>) =>
        /\ packet_status = 0
        /\ port_out = [i \in 1..transmit_attempt |-> packet_transit]
        /\ errors = call.errors + (IF pc = "await" THEN transmit_attempt - 1
                                   ELSE transmit_attempt)
        /\ transmit_attempt <= timeout + 1
        /\ timeout <= OuterFactor
    /\ (pc = "loop" /\ packet_status = 0 /\ timedout) =>
        /\ ENABLED _send_connection_lost
        /\ ~ENABLED _transmit_packet
        /\ ~ENABLED _send_return
    /\ (pc = "raised" /\ exc = "ConnectionLost") => (timedout /\ packet_status = 0)

\* C5 witness: a send that handled no response has transmitted its frame more
\* than once and has ended with ConnectionLost
C5_Witness ==
    /\ pc = "raised"
    /\ exc = "ConnectionLost"
    /\ processed.last = <<>>
    /\ transmit_attempt >= 2
    /\ errors = call.errors + transmit_attempt
    /\ port_out = [i \in 1..transmit_attempt |-> packet_transit]

\* the state of scenario S3: synchronized, sync = 0, the drain loop about to
\* pop from the queue [(rs, "0"), (ok, "0")]
S3_State ==
    /\ pc \in {"await", "drain"}
    /\ sync = 0
    /\ synchronized
    /\ responses = << <<TOK_rs, <<"0">>>>, <<TOK_ok, <<"0">>>> >>

\* C7 (as amended): in the state of S3, handling the first response does not
\* raise: it counts one error and leaves sync and the packet status alone;
\* the drain loop then handles the ok, which acknowledges the packet and
\* makes sync 1.
C7_ResendThenOk ==
    [][ /\ (S3_State /\ responses' = Tail(responses)) =>
            /\ pc' = "drain"
            /\ exc' = exc
            /\ errors' = errors + 1
            /\ sync' = 0
            /\ packet_status' = packet_status
        /\ ( /\ pc = "drain"
             /\ processed.last = <<TOK_rs, <<"0">>>>
             /\ sync = 0
             /\ synchronized
             /\ responses # <<>>
             /\ Head(responses) = <<TOK_ok, <<"0">>>>
             /\ responses' = Tail(responses) ) =>
            /\ pc' = "drain"
            /\ sync' = 1
            /\ packet_status' = 1
      ]_vars

\* C7 witness: the resend request of S3 has been handled and the ok is next
C7_Witness ==
    /\ pc = "drain"
    /\ exc = "none"
    /\ sync = 0
    /\ synchronized
    /\ packet_status = 0
    /\ processed.last = <<TOK_rs, <<"0">>>>
    /\ responses = << <<TOK_ok, <<"0">>>> >>
    /\ errors = call.errors + 1

\* C7 as stated: in the state of S3, handling the first response raises
\* SynchronizationError
C7_Original ==
    [][ (S3_State /\ responses' = Tail(responses)) =>
            (pc' = "raised" /\ exc' = "SynchronizationError") ]_vars

----------------------------------------------------------------------------
(* The receive worker's dispatch alone: applications register, lines arrive *)

\* registrations added per behaviour
MaxApps == 2

TOK_PFT  == <<"P", "F", "T", ":">>
TOK_echo == <<"e", "c", "h", "o", ":">>

\* the handlers A, B and C stand for callbacks of applications under test
RegisterArgs ==
    { [tokens |-> <<TOK_PFT>>, callback |-> "A"],
      [tokens |-> <<PFT_version>>, callback |-> "B"],
      [tokens |-> <<TOK_echo, PFT_version, TOK_PFT>>, callback |-> "C"] }

DispatchLines ==
    { <<"P", "F", "T", ":", "v", "e", "r", "s", "i", "o", "n", ":", "2", ".", "0", ":", "n", "o", "n", "e", "\n">>, <<"P", "F", "T", ":", "\r", "\n">>, <<"P", "F", "\n">>, <<"e", "c", "h", "o", ":", "x", " ", "\n">>, <<"o", "k", "0", "\n">>, <<"z", "z", "\n">>,
      <<" ", " ", "\n">>, <<BadByte, "\n">> }

\* Protocol.register
register(tokens, callback) ==
    /\ Len(applications) < 1 + MaxApps
    /\ applications' = Append(applications, [tokens |-> tokens, callback |-> callback])
    /\ UNCHANGED <<sync, errors, max_block_size, block_size, synchronized, connected,
                   protocol_version, responses, packet_transit, packet_status,
                   transmit_attempt, simulate_errors>>
    /\ UNCHANGED <<svars, lvars, hvars, xvars>>

Register == \E a \in RegisterArgs : register(a.tokens, a.callback)

\* readline() returns the next line
ReceiveLine ==
    /\ lines_in < MaxLines
    /\ lines_in' = lines_in + 1
    /\ \E raw \in DispatchLines : _receive_worker(raw)
    /\ UNCHANGED <<fvars, peer_sync, peer_accepted, peer_out, wvars>>

\* Protocol.__init__ alone: the Transport's own registration
InitDispatch ==
    /\ sync = 0
    /\ errors = 0
    /\ max_block_size = 0
    /\ block_size \in BlockSizeArgs
    /\ synchronized = FALSE
    /\ connected = TRUE
    /\ protocol_version = "unset"
    /\ responses = <<>>
    /\ applications = <<ProtocolRegistration>>
    /\ packet_transit = "unset"
    /\ packet_status = "unset"
    /\ transmit_attempt = "unset"
    /\ simulate_errors = FALSE
    /\ ft_responses = <<>>
    /\ ft_compression = <<>>
    /\ ft_version = <<>>
    /\ NoTransfer
    /\ Started
    /\ pc = "idle"
    /\ exc = "none"
    /\ timeout = 0
    /\ sends = 0
    /\ port_out = <<>>
    /\ handled = <<>>
    /\ call = NoCall
    /\ processed = [last |-> <<>>, ss |-> FALSE]

NextDispatch ==
    \/ Register
    \/ ReceiveLine

SpecDispatch == InitDispatch /\ [][NextDispatch]_vars

----------------------------------------------------------------------------
(* Claim C6 *)

IsPrefix(t, d) == Len(t) <= Len(d) /\ \A k \in 1..Len(t) : t[k] = d[k]

\* the registrations of which some token is a prefix of data
Matching(data) ==
    {i \in 1..Len(applications) :
        \E j \in 1..Len(applications[i].tokens) : IsPrefix(applications[i].tokens[j], data)}

\* callback was called once with (t, r), and no other handler was called
CalledOnce(callback, t, r) ==
    IF callback = "Protocol._process_input"
    THEN /\ responses' = Append(responses, <<t, r>>)
         /\ UNCHANGED <<ft_responses, handled>>
    ELSE /\ handled' = Append(handled, [callback |-> callback, token |-> t, rest |-> r])
         /\ UNCHANGED <<responses, ft_responses>>

\* what the line raw must lead to: nothing for an empty, undecodable or
\* unmatched line, else one call of the first matching registration's handler
\* with a token of that registration and the rest of the line
Delivered(raw) ==
    LET data == rstrip(raw)
        M    == Matching(data)
    IN  IF decode(raw).raised # "none" \/ data = <<>> \/ M = {}
        THEN UNCHANGED <<responses, ft_responses, handled>>
        ELSE LET i   == CHOOSE i \in M : \A k \in M : i <= k
                 reg == applications[i]
             IN  \E j \in 1..Len(reg.tokens) :
                    /\ IsPrefix(reg.tokens[j], data)
                    /\ \A k \in 1..(j - 1) : ~IsPrefix(reg.tokens[k], data)
                    /\ \E r \in {SubSeq(data, Len(reg.tokens[j]) + 1, Len(data))} :
                          /\ reg.tokens[j] \o r = data
                          /\ CalledOnce(reg.callback, reg.tokens[j], r)

S5Line == <<"P", "F", "T", ":", "v", "e", "r", "s", "i", "o", "n", ":", "2", ".", "0", ":", "n", "o", "n", "e", "\n">>
S5RegA == [tokens |-> <<TOK_PFT>>, callback |-> "A"]
S5RegB == [tokens |-> <<PFT_version>>, callback |-> "B"]

\* C6: every received line is dispatched by first match over the registrations
\* in registration order: for a non-empty line the handler of the first
\* registration having a token that is a prefix of the line is called exactly
\* once with (matched prefix, remainder) and no other handler is called; a line
\* matching no prefix is dropped. With the registrations ("PFT:", A),
\* ("PFT:version:", B) in that order the line PFT:version:2.0:none goes to A,
\* in the reverse order to B.
C6_FirstMatch ==
    [][ /\ \A raw \in DispatchLines : _receive_worker(raw) => Delivered(raw)
        /\ (_receive_worker(S5Line)
              /\ SubSeq(applications, 2, Len(applications)) = <<S5RegA, S5RegB>>)
             => handled' = Append(handled, [callback |-> "A", token |-> TOK_PFT,
                                            rest |-> <<"v", "e", "r", "s", "i", "o", "n", ":", "2", ".", "0", ":", "n", "o", "n", "e">>])
        /\ (_receive_worker(S5Line)
              /\ SubSeq(applications, 2, Len(applications)) = <<S5RegB, S5RegA>>)
             => handled' = Append(handled, [callback |-> "B", token |-> PFT_version,
                                            rest |-> <<"2", ".", "0", ":", "n", "o", "n", "e">>])
      ]_vars

\* C6 witness: with B registered before A, the line has gone to B, and an
\* unmatched or empty line later left the handlers alone
C6_Witness ==
    /\ applications = <<ProtocolRegistration, S5RegB, S5RegA>>
    /\ handled = <<[callback |-> "B", token |-> PFT_version, rest |-> <<"2", ".", "0", ":", "n", "o", "n", "e">>]>>
    /\ responses = <<>>
    /\ lines_in = 2

----------------------------------------------------------------------------
(* class FileTransferProtocol: copy, and the connect, open, abort, write and *)
(* close it calls. copy is called with compression = False, so              *)
(* compression_support is False and heatshrink.encode is never reached. The  *)
(* response timeout is taken to be the 1000 ms of open's own waits, which    *)
(* makes open's timer count in the unit of _send's.                          *)

\* bytes of the file copied, per behaviour
MaxFile == 3
\* PFT:busy replies of the peer, per behaviour
MaxBusy == 1
\* lines of the peer that readline() has not returned yet
MaxPending == 2

protocol_id == 1
QUERY == 0
OPEN  == 1
CLOSE == 2
WRITE == 3
ABORT == 4

\* timeout = _TimeOut(5000), in waits of _await_response(1000)
OpenDeadline == 5

\* the files open(filename, "rb").read() may return: 1, 2, ..., L
Files == {[k \in 1..L |-> k] : L \in 0..MaxFile}

\* open's payload for dummy = False, compression = False, filename = "f"
OpenPayload == <<0, 0, 102, 0>>

\* blocks = int(math.floor((len(data) + block_size - 1) / block_size))
blocks(data) == (Len(data) + block_size - 1) \div block_size

\* data[start:end] with start = block_size * i, end = start + block_size
block(data, i) ==
    LET start == block_size * i
        end   == start + block_size
    IN  SubSeq(data, start + 1, IF end < Len(data) THEN end ELSE Len(data))

LOG_version   == "File Transfer version"
LOG_opened    == "Opened file"
LOG_purging   == "Broken transfer detected, purging"
LOG_aborted   == "Transfer aborted"
LOG_closed    == "File closed"
LOG_ioerror   == "Client storage device IO error"
LOG_no_file   == "No open file"
LOG_complete  == "Transfer complete"

\* self.protocol._send(FileTransferProtocol.protocol_id, packet_type, data)
Sent(packet_type, data) ==
    /\ _send(protocol_id, packet_type, data)
    /\ ft_calls' = Append(ft_calls, [packet_type |-> packet_type, data |-> data])
    /\ UNCHANGED <<sends, lvars, pvars, wvars>>

\* an exception leaves copy
FTRaise(e) == ft_pc' = "raised" /\ ft_exc' = e

\* nothing of the Transport or its send task changes
TransportIdle == UNCHANGED <<tvars, svars, lvars, hvars, pvars, wvars>>

\* FileTransferProtocol._await_response returns self.responses.popleft()
FTPopped == pc = "done" /\ ft_responses # <<>> /\ ft_responses' = Tail(ft_responses)

\* FileTransferProtocol._await_response raises ReadTimeout
FTReadTimeout == pc = "done" /\ ft_responses = <<>>

\* copy is called: connect() sends QUERY
copy ==
    /\ ft_pc = "start"
    /\ Sent(QUERY, <<>>)
    /\ ft_pc' = "connect"
    /\ UNCHANGED <<ft_responses, ft_compression, ft_version, ft_exc, ft_timeout,
                   ft_token, ft_data, ft_i, ft_log>>

\* an exception of _send is caught nowhere in copy (open catches ReadTimeout
\* only, which _send does not raise)
copy_raise ==
    /\ ft_pc \in {"connect", "open_send", "reopen_send", "abort_send", "write_send",
                  "close_send"}
    /\ pc = "raised"
    /\ FTRaise(exc)
    /\ UNCHANGED <<ft_responses, ft_compression, ft_version, ft_timeout, ft_token,
                   ft_data, ft_i, ft_log, ft_calls>>
    /\ TransportIdle

\* connect after _send: the response is taken and, if it is the version,
\* unpacked; the assignments run in order
connect ==
    /\ ft_pc = "connect"
    /\ FTPopped
    /\ LET token == Head(ft_responses)[1]
           parts == split(Head(ft_responses)[2], ":")
       IN  IF token # PFT_version
           THEN /\ ft_pc' = "connected"
                /\ UNCHANGED <<ft_compression, ft_version, ft_exc, ft_log>>
           ELSE IF Len(parts) # 3
           THEN /\ FTRaise("ValueError")
                /\ UNCHANGED <<ft_compression, ft_version, ft_log>>
           ELSE IF parts[3] = <<"n", "o", "n", "e">>
           THEN /\ ft_version' = parts[1]
                /\ ft_compression' = parts[3]
                /\ ft_log' = Append(ft_log, LOG_version)
                /\ ft_pc' = "connected"
                /\ ft_exc' = ft_exc
           ELSE LET c == split(parts[3], ",")
                IN  IF Len(c) # 3 \/ int(c[2]).raised # "none" \/ int(c[3]).raised # "none"
                    THEN /\ FTRaise("ValueError")
                         /\ ft_version' = parts[1]
                         /\ UNCHANGED <<ft_compression, ft_log>>
                    ELSE /\ ft_version' = parts[1]
                         /\ ft_compression' = c[1]
                         /\ ft_log' = Append(ft_log, LOG_version)
                         /\ ft_pc' = "connected"
                         /\ ft_exc' = ft_exc
    /\ UNCHANGED <<ft_timeout, ft_token, ft_data, ft_i, ft_calls>>
    /\ TransportIdle

\* connect's _await_response times out, and the ReadTimeout leaves copy
connect_ReadTimeout ==
    /\ ft_pc = "connect"
    /\ FTReadTimeout
    /\ FTRaise("ReadTimeout")
    /\ UNCHANGED <<ft_responses, ft_compression, ft_version, ft_timeout, ft_token,
                   ft_data, ft_i, ft_log, ft_calls>>
    /\ TransportIdle

\* copy after connect: self.compression is read (and is missing if connect
\* returned False), the file is read, open builds its payload, starts its
\* timer and sends OPEN
open ==
    /\ ft_pc = "connected"
    /\ IF ft_compression = <<>>
       THEN /\ FTRaise("AttributeError")
            /\ UNCHANGED <<ft_timeout, ft_token, ft_data, ft_calls>>
            /\ TransportIdle
       ELSE /\ \E data \in Files : ft_data' = data
            /\ ft_timeout' = 0
            /\ ft_token' = <<>>
            /\ Sent(OPEN, OpenPayload)
            /\ ft_pc' = "open_send"
            /\ ft_exc' = ft_exc
    /\ UNCHANGED <<ft_responses, ft_compression, ft_version, ft_i, ft_log>>

\* _send has returned to open: into the loop after the first OPEN (the time
\* the send took has run on open's timer), to timeout.reset() after a re-send
open_sent ==
    /\ ft_pc \in {"open_send", "reopen_send"}
    /\ pc = "done"
    /\ ft_timeout' = IF ft_pc = "reopen_send" THEN 0
                     ELSE IF ft_timeout + timeout < OpenDeadline THEN ft_timeout + timeout
                     ELSE OpenDeadline
    /\ ft_pc' = "open_loop"
    /\ UNCHANGED <<ft_responses, ft_compression, ft_version, ft_exc, ft_token, ft_data,
                   ft_i, ft_log, ft_calls>>
    /\ TransportIdle

\* one round of open's loop in which _await_response(1000) returns a response
open_response ==
    /\ ft_pc = "open_loop"
    /\ ft_token # PFT_success
    /\ ft_timeout < OpenDeadline
    /\ FTPopped
    /\ LET token == Head(ft_responses)[1]
       IN  /\ ft_token' = token
           /\ IF token = PFT_success
              THEN /\ ft_log' = Append(ft_log, LOG_opened)
                   /\ ft_pc' = "opened"
                   /\ UNCHANGED <<ft_exc, ft_calls>>
                   /\ TransportIdle
              ELSE IF token = PFT_busy
              THEN /\ ft_log' = Append(ft_log, LOG_purging)
                   /\ Sent(ABORT, <<>>)
                   /\ ft_pc' = "abort_send"
                   /\ ft_exc' = ft_exc
              ELSE IF token = PFT_fail
              THEN /\ FTRaise("Exception: Cannot open file on client")
                   /\ UNCHANGED <<ft_log, ft_calls>>
                   /\ TransportIdle
              ELSE /\ UNCHANGED <<ft_pc, ft_exc, ft_log, ft_calls>>
                   /\ TransportIdle
    /\ UNCHANGED <<ft_compression, ft_version, ft_timeout, ft_data, ft_i>>

\* one round of open's loop in which _await_response(1000) raises ReadTimeout:
\* except ReadTimeout: pass
open_await_timeout ==
    /\ ft_pc = "open_loop"
    /\ ft_token # PFT_success
    /\ ft_timeout < OpenDeadline
    /\ FTReadTimeout
    /\ ft_timeout' = ft_timeout + 1
    /\ UNCHANGED <<ft_responses, ft_compression, ft_version, ft_pc, ft_exc, ft_token,
                   ft_data, ft_i, ft_log, ft_calls>>
    /\ TransportIdle

\* open's loop is left by its timer: raise ReadTimeout()
open_ReadTimeout ==
    /\ ft_pc = "open_loop"
    /\ ft_token = PFT_success \/ ft_timeout >= OpenDeadline
    /\ FTRaise("ReadTimeout")
    /\ UNCHANGED <<ft_responses, ft_compression, ft_version, ft_timeout, ft_token,
                   ft_data, ft_i, ft_log, ft_calls>>
    /\ TransportIdle

\* abort after _send: its response is taken, and open goes on with the sleep
\* and the re-send of OPEN
abort ==
    /\ ft_pc = "abort_send"
    /\ FTPopped
    /\ ft_log' = IF Head(ft_responses)[1] = PFT_success THEN Append(ft_log, LOG_aborted)
                 ELSE ft_log
    /\ Sent(OPEN, OpenPayload)
    /\ ft_pc' = "reopen_send"
    /\ UNCHANGED <<ft_compression, ft_version, ft_exc, ft_timeout, ft_token, ft_data, ft_i>>

\* abort's _await_response raises ReadTimeout inside open's try block, whose
\* except clause takes it: the rest of the busy branch is skipped and open's
\* loop goes round
abort_ReadTimeout ==
    /\ ft_pc = "abort_send"
    /\ FTReadTimeout
    /\ ft_timeout' = IF ft_timeout + 1 < OpenDeadline THEN ft_timeout + 1 ELSE OpenDeadline
    /\ ft_pc' = "open_loop"
    /\ UNCHANGED <<ft_responses, ft_compression, ft_version, ft_exc, ft_token, ft_data,
                   ft_i, ft_log, ft_calls>>
    /\ TransportIdle

\* copy after open: block_size is read, cratio and blocks are computed
copy_blocks ==
    /\ ft_pc = "opened"
    /\ IF Len(ft_data) = 0 \/ block_size = 0
       THEN FTRaise("ZeroDivisionError") /\ ft_i' = ft_i
       ELSE ft_pc' = "write_loop" /\ ft_i' = 0 /\ ft_exc' = ft_exc
    /\ UNCHANGED <<ft_responses, ft_compression, ft_version, ft_timeout, ft_token,
                   ft_data, ft_log, ft_calls>>
    /\ TransportIdle

\* the body of copy's loop over range(blocks): write(data[start:end])
write ==
    /\ ft_pc = "write_loop" \/ (ft_pc = "write_send" /\ pc = "done")
    /\ ft_i < blocks(ft_data)
    /\ Sent(WRITE, block(ft_data, ft_i))
    /\ ft_i' = ft_i + 1
    /\ ft_pc' = "write_send"
    /\ UNCHANGED <<ft_responses, ft_compression, ft_version, ft_exc, ft_timeout,
                   ft_token, ft_data, ft_log>>

\* copy after its loop: close() sends CLOSE
close ==
    /\ ft_pc = "write_loop" \/ (ft_pc = "write_send" /\ pc = "done")
    /\ ft_i >= blocks(ft_data)
    /\ Sent(CLOSE, <<>>)
    /\ ft_pc' = "close_send"
    /\ UNCHANGED <<ft_responses, ft_compression, ft_version, ft_exc, ft_timeout,
                   ft_token, ft_data, ft_i, ft_log>>

\* the line close logs for the token it was given, if any
close_log(token) ==
    IF token = PFT_success THEN <<LOG_closed>>
    ELSE IF token = PFT_ioerror THEN <<LOG_ioerror>>
    ELSE IF token = PFT_invalid THEN <<LOG_no_file>>
    ELSE <<>>

\* close after _send: the response is taken and logged; close returns in every
\* case, and copy logs the end of the transfer
close_response ==
    /\ ft_pc = "close_send"
    /\ FTPopped
    /\ ft_token' = Head(ft_responses)[1]
    /\ ft_log' = ft_log \o close_log(Head(ft_responses)[1]) \o <<LOG_complete>>
    /\ ft_pc' = "done"
    /\ UNCHANGED <<ft_compression, ft_version, ft_exc, ft_timeout, ft_data, ft_i, ft_calls>>
    /\ TransportIdle

\* close's _await_response(1000) raises ReadTimeout, which leaves copy
close_ReadTimeout ==
    /\ ft_pc = "close_send"
    /\ FTReadTimeout
    /\ FTRaise("ReadTimeout")
    /\ UNCHANGED <<ft_responses, ft_compression, ft_version, ft_timeout, ft_token,
                   ft_data, ft_i, ft_log, ft_calls>>
    /\ TransportIdle

----------------------------------------------------------------------------
(* The peer of a file transfer. The firmware is not part of the repository:  *)
(* the peer here checks each frame as the wire format requires, accepts the  *)
(* frame whose sync id it expects, and answers with the tokens the host      *)
(* registers for. The link is paced by the peer: a frame is read as it is    *)
(* written. The peer's lines wait in peer_out until readline() returns them. *)

\* str(n) for n >= 0
RECURSIVE decimal(_)
decimal(n) ==
    IF n < 10 THEN <<Digits[n + 1]>>
    ELSE Append(decimal(n \div 10), Digits[(n % 10) + 1])

PeerLine(token, rest) == token \o rest \o <<"\n">>

\* the version line as the firmware writes it, and as the format
\* PFT:version:<ver>:<compression> would have it
VersionLines ==
    { <<"P", "F", "T", ":", "v", "e", "r", "s", "i", "o", "n", ":", "0", ".", "1", ".", "0", ":", "c", "o", "m", "p", "r", "e", "s", "s", "i", "o", "n", ":", "n", "o", "n", "e", "\n">>, <<"P", "F", "T", ":", "v", "e", "r", "s", "i", "o", "n", ":", "2", ".", "0", ":", "n", "o", "n", "e", "\n">> }

\* number of OPEN packets among the accepted ones
RECURSIVE Opens(_)
Opens(accepted) ==
    IF accepted = <<>> THEN 0
    ELSE Opens(Tail(accepted))
         + (IF Head(accepted).protocol = protocol_id /\ Head(accepted).packet_type = OPEN
            THEN 1 ELSE 0)

\* what the file-transfer application of the peer may answer to packet p
PeerReplies(p) ==
    IF p.protocol # protocol_id THEN {<<>>}
    ELSE IF p.packet_type = QUERY THEN {<<l>> : l \in VersionLines}
    ELSE IF p.packet_type = OPEN
    THEN {<<PeerLine(PFT_success, <<>>)>>, <<PeerLine(PFT_fail, <<>>)>>}
         \cup (IF Opens(peer_accepted) < MaxBusy THEN {<<PeerLine(PFT_busy, <<>>)>>}
               ELSE {})
    ELSE IF p.packet_type = CLOSE
    THEN {<<PeerLine(PFT_success, <<>>)>>, <<PeerLine(PFT_ioerror, <<>>)>>,
          <<PeerLine(PTF_invalid, <<>>)>>}
    ELSE IF p.packet_type = ABORT THEN {<<PeerLine(PFT_success, <<>>)>>}
    ELSE {<<>>}

\* the peer reads a frame: a frame that fails a check is answered with a
\* resend request or not at all, a valid frame with another sync id with a
\* resend request, the expected frame is accepted and acknowledged
peer_receive(frame) ==
    /\ LET p  == parse_packet(frame)
           rs == PeerLine(TOK_rs, decimal(peer_sync))
           ok == PeerLine(TOK_ok, decimal(peer_sync))
       IN  IF ~p.valid
           THEN /\ peer_out' \in {peer_out, Append(peer_out, rs)}
                /\ UNCHANGED <<peer_sync, peer_accepted>>
           ELSE IF p.sync # peer_sync
           THEN /\ peer_out' = Append(peer_out, rs)
                /\ UNCHANGED <<peer_sync, peer_accepted>>
           ELSE /\ peer_accepted' = Append(peer_accepted,
                                           [protocol |-> p.protocol,
                                            packet_type |-> p.packet_type,
                                            data |-> p.data])
                /\ peer_sync' = (peer_sync + 1) % 256
                /\ \E reply \in PeerReplies(p) : peer_out' = Append(peer_out, ok) \o reply
    /\ Len(peer_out') <= MaxPending

\* readline() returns the next line of the peer
readline ==
    /\ peer_out # <<>>
    /\ _receive_worker(Head(peer_out))
    /\ peer_out' = Tail(peer_out)
    /\ UNCHANGED <<fvars, lines_in, peer_sync, peer_accepted, wvars>>

\* _transmit_packet on the link to the peer
link_transmit ==
    /\ transmit
    /\ \E packet \in transmitted(packet_transit) : peer_receive(packet)
    /\ UNCHANGED <<port_out, lines_in>>

----------------------------------------------------------------------------
(* A file transfer: copy on a connected and synchronized Transport *)

\* the Transport after a connect that the stream sync ss255,4,2.0 answered
InitFT ==
    /\ sync = 255
    /\ errors = 0
    /\ max_block_size = 4
    /\ block_size \in BlockSizeArgs
    /\ synchronized = TRUE
    /\ connected = TRUE
    /\ protocol_version = <<"2", ".", "0">>
    /\ responses = <<>>
    /\ applications = <<ProtocolRegistration, FileTransferRegistration>>
    /\ packet_transit = None
    /\ packet_status = 1
    /\ transmit_attempt = 1
    /\ simulate_errors \in BOOLEAN
    /\ ft_responses = <<>>
    /\ ft_compression = <<>>
    /\ ft_version = <<>>
    /\ ft_pc = "start"
    /\ ft_exc = "none"
    /\ ft_timeout = 0
    /\ ft_token = <<>>
    /\ ft_data = <<>>
    /\ ft_i = 0
    /\ ft_log = <<>>
    /\ ft_calls = <<>>
    /\ lines_in = 0
    /\ peer_sync = sync
    /\ peer_accepted = <<>>
    /\ Started
    /\ peer_out = <<>>
    /\ pc = "done"
    /\ exc = "none"
    /\ timeout = 0
    /\ sends = 0
    /\ port_out = <<>>
    /\ handled = <<>>
    /\ call = NoCall
    /\ processed = [last |-> <<>>, ss |-> FALSE]

\* this peer sends neither a stream sync nor a fatal error
NextFT ==
    \/ copy
    \/ copy_raise
    \/ connect
    \/ connect_ReadTimeout
    \/ open
    \/ open_sent
    \/ open_response
    \/ open_await_timeout
    \/ open_ReadTimeout
    \/ abort
    \/ abort_ReadTimeout
    \/ copy_blocks
    \/ write
    \/ close
    \/ close_response
    \/ close_ReadTimeout
    \/ _send_return
    \/ _send_connection_lost
    \/ link_transmit
    \/ _await_response_timeout
    \/ _response_ok
    \/ _response_resend
    \/ _await_response_return
    \/ readline

SpecFT == InitFT /\ [][NextFT]_vars

----------------------------------------------------------------------------
(* Claims about the file transfer *)

IsWritePacket(p) == p.protocol = protocol_id /\ p.packet_type = WRITE

\* number of _send calls copy has made with packet type t
Calls(t) == Cardinality({i \in 1..Len(ft_calls) : ft_calls[i].packet_type = t})

\* number of times line was logged
Logged(line) == Cardinality({i \in 1..Len(ft_log) : ft_log[i] = line})

\* the k-th block of the file, k = 1, 2, ..., and the number of blocks
FileBlock(k) ==
    SubSeq(ft_data, ((k - 1) * block_size) + 1,
           IF k * block_size < Len(ft_data) THEN k * block_size ELSE Len(ft_data))
NumBlocks ==
    IF Len(ft_data) % block_size = 0 THEN Len(ft_data) \div block_size
    ELSE (Len(ft_data) \div block_size) + 1

\* the payloads of the WRITE packets the peer has accepted, in order
WritesAccepted ==
    LET w == SelectSeq(peer_accepted, IsWritePacket)
    IN  [k \in 1..Len(w) |-> w[k].data]

\* C3 (as amended): under injected corruption and drops of transmitted frames,
\* at every point of a copy the data blocks the peer has accepted are the
\* first blocks of the file, each accepted exactly once and in file order, at
\* most as many as copy has written; and when copy completes the peer has
\* accepted every block of the file exactly once and in order, and then the
\* CLOSE. (copy need not complete: a send whose attempts all fail until its
\* deadline ends it with ConnectionLost.)
C3_BlocksOnceInOrder ==
    /\ Len(WritesAccepted) <= ft_i
    /\ \A k \in 1..Len(WritesAccepted) : WritesAccepted[k] = FileBlock(k)
    /\ ft_pc = "done" =>
         /\ Len(WritesAccepted) = NumBlocks
         /\ peer_accepted[Len(peer_accepted)].packet_type = CLOSE

\* C3 witness: with the error simulation on, the first block has been
\* accepted, the frame of the second block has reached the peer damaged, and
\* the send of the second block has handled the peer's resend request
C3_Witness ==
    /\ simulate_errors
    /\ ft_pc = "write_send"
    /\ ft_i = 2
    /\ pc = "drain"
    /\ processed.last = <<TOK_rs, decimal(sync)>>
    /\ peer_sync = sync
    /\ WritesAccepted = <<FileBlock(1)>>

\* C3 as stated: under a link that damages some attempts but not every
\* attempt for ever, copy eventually completes. A copy that an exception has
\* left never completes, and a run that ends there has not been damaged for
\* ever; so the statement requires that the damage to its frames never ends a
\* copy: no send of copy gives up with ConnectionLost.
C3_Original ==
    simulate_errors => ~(ft_pc = "raised" /\ ft_exc = "ConnectionLost")

\* the exceptions by which a fault of the link or of the peer ends copy
LinkFaults == {"ConnectionLost", "ReadTimeout", "SynchronizationError", "FatalError"}

\* C4: a fault-free copy without compression of a file of L bytes with block
\* size bs sends exactly one OPEN, then exactly ceil(L/bs) WRITE packets in
\* increasing offset order, each carrying bs bytes except the last which
\* carries the remaining bytes, then exactly one CLOSE, and the peer observes
\* them in that order; once the file is open only a fault ends copy early.
C4_CopySequence ==
    /\ (ft_pc = "done" /\ errors = 0 /\ Logged(LOG_purging) = 0) =>
         /\ ft_calls = <<[packet_type |-> QUERY, data |-> <<>>],
                         [packet_type |-> OPEN, data |-> OpenPayload]>>
                       \o [k \in 1..NumBlocks |->
                              [packet_type |-> WRITE, data |-> FileBlock(k)]]
                       \o <<[packet_type |-> CLOSE, data |-> <<>>]>>
         /\ peer_accepted = [k \in 1..Len(ft_calls) |->
                               [protocol |-> protocol_id,
                                packet_type |-> ft_calls[k].packet_type,
                                data |-> ft_calls[k].data]]
    /\ (ft_pc = "raised" /\ Logged(LOG_opened) = 1) => ft_exc \in LinkFaults

\* C9: open sends OPEN and returns normally only after a PFT:success response;
\* every PFT:busy response is followed by one ABORT, then a re-send of OPEN
\* with the same payload and a reset of the deadline, so that open waits only
\* with one more OPEN sent than busy responses taken; PFT:fail ends open
\* with the open-failure error; a read timeout of one attempt only loops; and
\* with the deadline exhausted open can only end with ReadTimeout.
C9_OpenProtocol ==
    /\ Calls(OPEN) >= 1 =>
         \A i \in 1..Len(ft_calls) :
            ft_calls[i].packet_type = OPEN => ft_calls[i].data = OpenPayload
    /\ ft_pc = "opened" => (ft_token = PFT_success /\ Logged(LOG_opened) = 1)
    /\ ft_pc \in {"open_loop", "opened"} =>
         /\ Calls(ABORT) = Logged(LOG_purging)
         /\ Calls(OPEN) = Logged(LOG_purging) + 1
    /\ (ft_pc = "raised" /\ ft_exc = "Exception: Cannot open file on client")
         => ft_token = PFT_fail
    /\ (ft_pc = "open_loop" /\ ft_timeout >= OpenDeadline) =>
         /\ ENABLED open_ReadTimeout
         /\ ~ENABLED open_response
         /\ ~ENABLED open_await_timeout

\* C10: close sends exactly one CLOSE and then handles the peer's reply:
\* PFT:success is reported as the file being closed, PFT:ioerror produces the
\* storage-error warning, and the peer's invalid reply, PTF:invalid on the
\* wire, produces the no-open-file warning; each of the three is delivered to
\* close and told from the other two.
C10_CloseReplies ==
    ft_pc = "done" =>
        /\ Calls(CLOSE) = 1
        /\ ft_calls[Len(ft_calls)].packet_type = CLOSE
        /\ ft_token = PFT_success =>
             SubSeq(ft_log, Len(ft_log) - 1, Len(ft_log)) = <<LOG_closed, LOG_complete>>
        /\ ft_token = PFT_ioerror =>
             SubSeq(ft_log, Len(ft_log) - 1, Len(ft_log)) = <<LOG_ioerror, LOG_complete>>
        /\ ft_token = PTF_invalid =>
             SubSeq(ft_log, Len(ft_log) - 1, Len(ft_log)) = <<LOG_no_file, LOG_complete>>

----------------------------------------------------------------------------
(* Claims about the response handlers *)

\* the drain loop pops a response with the given token for its handler
Pops(token) ==
    /\ pc \in {"await", "drain"}
    /\ responses # <<>>
    /\ Head(responses)[1] = token
    /\ responses' = Tail(responses)

\* the Transport fields other than the response queue
tfields == <<sync, errors, max_block_size, block_size, synchronized, connected,
             protocol_version, applications, packet_transit, packet_status,
             transmit_attempt, simulate_errors>>

\* C11: handling an ok response during a send: an id equal to the current sync
\* makes sync (sync + 1) mod 256 and marks the packet Acked; a number other
\* than sync raises SynchronizationError and leaves sync and the packet status
\* alone; an id that does not parse is dropped without any change of state.
\* The same holds of an ok handled after an rs in the same drain: it is
\* compared with the sync current when it is handled.
C11_OkResponse ==
    [][ Pops(TOK_ok) =>
          LET n == int(Head(responses)[2])
          IN  /\ (n.raised = "none" /\ n.value = sync) =>
                    /\ sync' = (sync + 1) % 256
                    /\ packet_status' = 1
                    /\ pc' = "drain"
                    /\ exc' = exc
              /\ (n.raised = "none" /\ n.value # sync) =>
                    /\ pc' = "raised"
                    /\ exc' = "SynchronizationError"
                    /\ sync' = sync
                    /\ packet_status' = packet_status
              /\ n.raised # "none" =>
                    /\ pc' = "drain"
                    /\ exc' = exc
                    /\ UNCHANGED tfields
              /\ errors' = errors
              /\ UNCHANGED <<max_block_size, block_size, synchronized>>
      ]_vars

\* C11 witness: in the first drain of a send an rs was handled and then an ok
\* with the current sync 0, which acknowledged the packet
C11_Witness ==
    /\ pc = "drain"
    /\ transmit_attempt = 1
    /\ errors = call.errors + 1
    /\ processed.last = <<TOK_ok, <<"0">>>>
    /\ call.sync = 0
    /\ sync = 1
    /\ packet_status = 1


\* C12: handling an rs response during a send always counts one error; while
\* not synchronized it never raises, once synchronized it raises
\* SynchronizationError exactly when the id differs from the current sync; and
\* when it does not raise, sync, the packet status and the frame in transit
\* are as before, so that a drain that acknowledged nothing leaves the send
\* loop to transmit the same frame again.
C12_ResendResponse ==
    [][ /\ Pops(TOK_rs) =>
          LET n == int(Head(responses)[2])
          IN  /\ errors' = errors + 1
              /\ ~synchronized => (pc' = "drain" /\ exc' = exc)
              /\ synchronized =>
                    /\ pc' \in {"drain", "raised"}
                    /\ pc' = "raised" <=> (n.raised # "none" \/ n.value # sync)
                    /\ pc' = "raised" => exc' = "SynchronizationError"
              /\ pc' = "drain" =>
                    UNCHANGED <<sync, packet_status, packet_transit, synchronized>>
        /\ (pc = "loop" /\ packet_status = 0 /\ ~timedout /\ sync = call.sync) =>
              /\ ENABLED _transmit_packet
              /\ _transmit_packet =>
                    /\ port_out' = Append(port_out, packet_transit)
                    /\ packet_transit = _build_packet(call.protocol, call.packet_type,
                                                      call.data).packet
      ]_vars

----------------------------------------------------------------------------
(* Protocol.send_ascii, connect and disconnect *)

\* ord() of the characters of the lines send_ascii is given
ord(c) ==
    CASE c = "M" -> 77
      [] c = "B" -> 66
      [] c = "1" -> 49
      [] c = "2" -> 50
      [] c = "8" -> 56

\* bytearray(data, 'utf8') of ASCII text
bytearray(data) == [i \in 1..Len(data) |-> ord(data[i])]

\* send_ascii up to its loop; the caller's own variables, its count of calls
\* and the port are left to the caller's action
send_ascii(data) ==
    /\ pc \in {"idle", "done", "raised"}
    /\ call' = [protocol |-> 0, packet_type |-> 0, data |-> <<>>,
                sync |-> sync, max_block_size |-> max_block_size, errors |-> errors]
    /\ processed' = [last |-> <<>>, ss |-> FALSE]
    /\ packet_transit' = bytearray(data) \o <<10>>
    /\ packet_status' = 0
    /\ transmit_attempt' = 0
    /\ timeout' = 0
    /\ pc' = "ascii_loop"
    /\ exc' = "none"
    /\ UNCHANGED <<sync, errors, max_block_size, block_size, synchronized, connected,
                   protocol_version, responses, applications, simulate_errors>>

\* if timeout.timedout(): return, which leaves self.packet_transit as it is
send_ascii_deadline ==
    /\ pc = "ascii_loop"
    /\ packet_status = 0
    /\ timedout
    /\ pc' = "done"
    /\ UNCHANGED <<tvars, exc, timeout, sends, lvars, hvars, xvars>>

\* self.port.write(self.packet_transit)
send_ascii_write ==
    /\ pc = "ascii_loop"
    /\ packet_status = 0
    /\ ~timedout
    /\ port = "open"
    /\ port_out' = Append(port_out, packet_transit)
    /\ pc' = "ascii_await"
    /\ UNCHANGED <<tvars, exc, timeout, sends, handled, hvars, xvars>>

\* the write raises SerialException, as on a closed port it must and on an
\* open one it may: except serial.serialutil.SerialException: return
send_ascii_write_fails ==
    /\ pc = "ascii_loop"
    /\ packet_status = 0
    /\ ~timedout
    /\ pc' = "done"
    /\ UNCHANGED <<tvars, exc, timeout, sends, lvars, hvars, xvars>>

\* await_response_ascii raises ReadTimeout, which send_ascii catches
await_response_ascii_timeout ==
    /\ pc = "ascii_await"
    /\ responses = <<>>
    /\ errors < MaxErrors
    /\ errors' = errors + 1
    /\ timeout' \in Elapsed(timeout)
    /\ pc' = "ascii_loop"
    /\ UNCHANGED <<sync, max_block_size, block_size, synchronized, connected,
                   protocol_version, responses, applications, packet_transit,
                   packet_status, transmit_attempt, simulate_errors, exc, sends>>
    /\ UNCHANGED <<lvars, hvars, xvars>>

\* a version of await_response_ascii that empties the queue
await_response_ascii_clear ==
    /\ pc = "ascii_await"
    /\ responses # <<>>
    /\ responses' = <<>>
    /\ processed' = [processed EXCEPT !.last = Head(responses)]
    /\ packet_status' = 1
    /\ pc' = "ascii_loop"
    /\ UNCHANGED <<sync, errors, max_block_size, block_size, synchronized, connected,
                   protocol_version, applications, packet_transit, transmit_attempt,
                   simulate_errors, exc, timeout, sends, call>>
    /\ UNCHANGED <<lvars, xvars>>

\* self.responses.popleft(); self.packet_status = 1
await_response_ascii ==
    /\ pc = "ascii_await"
    /\ responses # <<>>
    /\ responses' = Tail(responses)
    /\ processed' = [processed EXCEPT !.last = Head(responses)]
    /\ packet_status' = 1
    /\ pc' = "ascii_loop"
    /\ UNCHANGED <<sync, errors, max_block_size, block_size, synchronized, connected,
                   protocol_version, applications, packet_transit, transmit_attempt,
                   simulate_errors, exc, timeout, sends, call>>
    /\ UNCHANGED <<lvars, xvars>>

\* the loop of send_ascii is left: self.packet_transit = None
send_ascii_return ==
    /\ pc = "ascii_loop"
    /\ packet_status # 0
    /\ packet_transit' = None
    /\ pc' = "done"
    /\ UNCHANGED <<sync, errors, max_block_size, block_size, synchronized, connected,
                   protocol_version, responses, applications, packet_status,
                   transmit_attempt, simulate_errors, exc, timeout, sends>>
    /\ UNCHANGED <<lvars, hvars, xvars>>


\* the caller is between two calls of the Transport's methods
ApiIdle == api \in {"none", "connect_returned", "disconnect_returned", "raised"}

\* Protocol.connect is called: send_ascii("M28B1")
connect_send_ascii ==
    /\ ApiIdle
    /\ sends < MaxSends
    /\ sends' = sends + 1
    /\ send_ascii(<<"M", "2", "8", "B", "1">>)
    /\ api' = "connect_ascii"
    /\ port_out' = <<>>
    /\ UNCHANGED <<handled, ft_responses, fvars, pvars, worker, attempt, port>>

\* send_ascii has returned: self._send(0, 1)
connect_send ==
    /\ api = "connect_ascii"
    /\ pc = "done"
    /\ _send(0, 1, <<>>)
    /\ api' = "connect_send"
    /\ UNCHANGED <<sends, lvars, ft_responses, fvars, pvars, worker, attempt, port>>

\* _send has returned, and so does connect
connect_return ==
    /\ api = "connect_send"
    /\ pc = "done"
    /\ api' = "connect_returned"
    /\ UNCHANGED <<tvars, svars, lvars, hvars, ft_responses, fvars, pvars,
                   worker, attempt, port>>

\* Protocol.disconnect is called: self._send(0, 2)
disconnect_send ==
    /\ ApiIdle
    /\ sends < MaxSends
    /\ sends' = sends + 1
    /\ _send(0, 2, <<>>)
    /\ api' = "disconnect_send"
    /\ port_out' = <<>>
    /\ UNCHANGED <<handled, ft_responses, fvars, pvars, worker, attempt, port>>

\* _send has returned: self.synchronized = False
disconnect_return ==
    /\ api = "disconnect_send"
    /\ pc = "done"
    /\ synchronized' = FALSE
    /\ api' = "disconnect_returned"
    /\ UNCHANGED <<sync, errors, max_block_size, block_size, connected, protocol_version,
                   responses, applications, packet_transit, packet_status,
                   transmit_attempt, simulate_errors>>
    /\ UNCHANGED <<svars, lvars, hvars, ft_responses, fvars, pvars, worker, attempt, port>>

\* the exception that left _send leaves connect or disconnect
api_raise ==
    /\ api \in {"connect_send", "disconnect_send"}
    /\ pc = "raised"
    /\ api' = "raised"
    /\ UNCHANGED <<tvars, svars, lvars, hvars, ft_responses, fvars, pvars,
                   worker, attempt, port>>

\* the lines the peer may send while the host connects and disconnects
ConnectLines ==
    { <<"o", "k", "\n">>, <<"o", "k", "0", "\n">>, <<"r", "s", "0", "\n">>, <<"s", "s", "7", ",", "5", "1", "2", ",", "2", ".", "0", "\n">>, <<"s", "s", "0", ",", "1", ",", "2", ".", "0", "\r", "\n">> }

\* readline() returns the next line of the peer
ReceiveConnect ==
    /\ lines_in < MaxLines
    /\ lines_in' = lines_in + 1
    /\ \E raw \in ConnectLines : _receive_worker(raw)
    /\ UNCHANGED <<fvars, peer_sync, peer_accepted, peer_out, wvars>>

NextConnect ==
    \/ connect_send_ascii
    \/ send_ascii_deadline
    \/ send_ascii_write
    \/ send_ascii_write_fails
    \/ await_response_ascii_timeout
    \/ await_response_ascii
    \/ send_ascii_return
    \/ connect_send
    \/ connect_return
    \/ disconnect_send
    \/ disconnect_return
    \/ api_raise
    \/ _send_return
    \/ _send_connection_lost
    \/ _transmit_packet
    \/ _await_response_timeout
    \/ _response_ok
    \/ _response_resend
    \/ _response_stream_sync
    \/ _await_response_return
    \/ ReceiveConnect

SpecConnect == Init /\ [][NextConnect]_vars

----------------------------------------------------------------------------
(* Claims about the stream sync, send_ascii and connect *)

\* C13: handling a stream-sync response ss <s>,<m>,<v> sets sync = s,
\* max_block_size = m, block_size = min(block_size before, m),
\* protocol_version = v, synchronized = true and marks the packet in flight
\* Acked (7,512,2.0 gives sync 7, max_block_size 512, version 2.0); nothing
\* else changes block_size or max_block_size, and block_size <= max_block_size
\* holds in every reachable state in which synchronized is true.
C13_StreamSync ==
    /\ [](synchronized => block_size <= max_block_size)
    /\ [][ /\ Pops(TOK_ss) =>
                LET parts == split(Head(responses)[2], ",")
                IN  (Len(parts) = 3 /\ int(parts[1]).raised = "none"
                                    /\ int(parts[2]).raised = "none") =>
                        /\ sync' = int(parts[1]).value
                        /\ max_block_size' = int(parts[2]).value
                        /\ block_size' = IF block_size < int(parts[2]).value
                                         THEN block_size ELSE int(parts[2]).value
                        /\ protocol_version' = parts[3]
                        /\ synchronized'
                        /\ packet_status' = 1
                        /\ pc' = "drain"
           /\ (Pops(TOK_ss) /\ Head(responses)[2] = <<"7", ",", "5", "1", "2", ",", "2", ".", "0">>) =>
                /\ sync' = 7
                /\ max_block_size' = 512
                /\ protocol_version' = <<"2", ".", "0">>
           /\ (block_size' # block_size \/ max_block_size' # max_block_size) =>
                Pops(TOK_ss)
      ]_vars

\* C13 witness: a stream sync with a buffer smaller than block_size has capped
\* it, and the stream sync 7,512,2.0 after it has left the cap in place
C13_Witness ==
    /\ synchronized
    /\ processed.last = <<TOK_ss, <<"7", ",", "5", "1", "2", ",", "2", ".", "0">>>>
    /\ sync = 7
    /\ max_block_size = 512
    /\ block_size = 1
    /\ protocol_version = <<"2", ".", "0">>
    /\ packet_status = 1

----------------------------------------------------------------------------
(* The receive task with a link that fails, and Protocol.shutdown *)

\* for _ in range(10)
ReopenAttempts == 10

\* the lines the peer may send: the acknowledgements of the first two packets
WorkerLines == { <<"o", "k", "0", "\n">>, <<"o", "k", "1", "\n">> }

\* while self.connected: the loop goes on into readline(), or the task returns
worker_test ==
    /\ worker = "test"
    /\ worker' = IF connected THEN "readline" ELSE "exited"
    /\ UNCHANGED <<tvars, svars, lvars, hvars, ft_responses, fvars, pvars,
                   attempt, port, api>>

\* readline() returns a line of the peer
worker_readline ==
    /\ worker = "readline"
    /\ port = "open"
    /\ lines_in < MaxLines
    /\ lines_in' = lines_in + 1
    /\ \E raw \in WorkerLines : receive_line(raw)
    /\ worker' = "test"
    /\ UNCHANGED <<fvars, peer_sync, peer_accepted, peer_out, attempt, port, api>>

\* readline() returns nothing when the port's read timeout of 1 s ends
worker_readline_empty ==
    /\ worker = "readline"
    /\ port = "open"
    /\ receive_line(<<>>)
    /\ worker' = "test"
    /\ UNCHANGED <<fvars, pvars, attempt, port, api>>

\* readline() raises OSError: reconnect() logs and closes the port
worker_readline_OSError ==
    /\ worker = "readline"
    /\ port' = "closed"
    /\ attempt' = 0
    /\ worker' = "reconnect"
    /\ UNCHANGED <<tvars, svars, lvars, hvars, ft_responses, fvars, pvars, api>>

\* an attempt of reconnect() that finds self.connected and opens the port:
\* reconnect returns, and the loop of the worker goes on
reconnect_opens ==
    /\ worker = "reconnect"
    /\ attempt < ReopenAttempts
    /\ connected
    /\ port' = "open"
    /\ attempt' = 0
    /\ worker' = "test"
    /\ UNCHANGED <<tvars, svars, lvars, hvars, ft_responses, fvars, pvars, api>>

\* an attempt whose serial.Serial(...) raises: except: time.sleep(1)
reconnect_sleeps ==
    /\ worker = "reconnect"
    /\ attempt < ReopenAttempts
    /\ connected
    /\ attempt' = attempt + 1
    /\ UNCHANGED <<tvars, svars, lvars, hvars, ft_responses, fvars, pvars,
                   worker, port, api>>

\* an attempt that finds self.connected false: "Connection closed", return
reconnect_closed ==
    /\ worker = "reconnect"
    /\ attempt < ReopenAttempts
    /\ ~connected
    /\ attempt' = 0
    /\ worker' = "test"
    /\ UNCHANGED <<tvars, svars, lvars, hvars, ft_responses, fvars, pvars, port, api>>

\* the for loop is exhausted: raise ConnectionLost(), which leaves the task
reconnect_ConnectionLost ==
    /\ worker = "reconnect"
    /\ attempt = ReopenAttempts
    /\ worker' = "raised"
    /\ UNCHANGED <<tvars, svars, lvars, hvars, ft_responses, fvars, pvars,
                   attempt, port, api>>

\* the steps of the receive task
_receive_worker_step ==
    \/ worker_test
    \/ worker_readline
    \/ worker_readline_empty
    \/ worker_readline_OSError
    \/ reconnect_opens
    \/ reconnect_sleeps
    \/ reconnect_closed
    \/ reconnect_ConnectionLost

\* Protocol.shutdown is called: self.connected = False
shutdown ==
    /\ api = "none"
    /\ pc \in {"idle", "done", "raised"}
    /\ connected' = FALSE
    /\ api' = "shutdown_join"
    /\ UNCHANGED <<sync, errors, max_block_size, block_size, synchronized,
                   protocol_version, responses, applications, packet_transit,
                   packet_status, transmit_attempt, simulate_errors>>
    /\ UNCHANGED <<svars, lvars, hvars, ft_responses, fvars, pvars, worker, attempt, port>>

\* a shutdown that does not wait for the worker thread
shutdown_join_no_wait ==
    /\ api = "shutdown_join"
    /\ api' = "shutdown_close"
    /\ UNCHANGED <<tvars, svars, lvars, hvars, ft_responses, fvars, pvars,
                   worker, attempt, port>>

\* self.worker_thread.join() returns
shutdown_join ==
    /\ api = "shutdown_join"
    /\ worker \in {"exited", "raised"}
    /\ api' = "shutdown_close"
    /\ UNCHANGED <<tvars, svars, lvars, hvars, ft_responses, fvars, pvars,
                   worker, attempt, port>>

\* self.port.close(), and shutdown returns
shutdown_close ==
    /\ api = "shutdown_close"
    /\ port' = "closed"
    /\ api' = "shutdown_returned"
    /\ UNCHANGED <<tvars, svars, lvars, hvars, ft_responses, fvars, pvars,
                   worker, attempt>>


\* self.port.write(packet) raises SerialException, as on a closed port it must
\* and on an open one it may; _send does not catch it
_transmit_packet_raises ==
    /\ pc = "loop"
    /\ packet_status = 0
    /\ ~timedout
    /\ Raise("SerialException")
    /\ UNCHANGED <<tvars, timeout, sends, lvars, hvars, xvars>>

\* the caller sends a control packet, before shutdown or after it
send_control ==
    /\ api \in {"none", "shutdown_returned"}
    /\ sends < MaxSends
    /\ sends' = sends + 1
    /\ _send(0, 1, <<>>)
    /\ port_out' = <<>>
    /\ UNCHANGED <<handled, xvars>>

\* Protocol.__init__ as in Init; the three attributes that only a send
\* creates, and that nothing reads before a send has set them, have the
\* values a completed send leaves
InitWorker ==
    /\ sync = 0
    /\ errors = 0
    /\ max_block_size = 0
    /\ block_size \in BlockSizeArgs
    /\ synchronized = FALSE
    /\ connected = TRUE
    /\ protocol_version = "unset"
    /\ responses = <<>>
    /\ applications = <<ProtocolRegistration, FileTransferRegistration>>
    /\ packet_transit = None
    /\ packet_status = 1
    /\ transmit_attempt = 0
    /\ simulate_errors = FALSE
    /\ ft_responses = <<>>
    /\ ft_compression = <<>>
    /\ ft_version = <<>>
    /\ NoTransfer
    /\ Started
    /\ pc = "idle"
    /\ exc = "none"
    /\ timeout = 0
    /\ sends = 0
    /\ port_out = <<>>
    /\ handled = <<>>
    /\ call = NoCall
    /\ processed = [last |-> <<>>, ss |-> FALSE]

NextWorker ==
    \/ send_control
    \/ _send_return
    \/ _send_connection_lost
    \/ _transmit_packet
    \/ _transmit_packet_raises
    \/ _await_response_timeout
    \/ _response_ok
    \/ _await_response_return
    \/ _receive_worker_step
    \/ shutdown
    \/ shutdown_join
    \/ shutdown_close

SpecWorker == InitWorker /\ [][NextWorker]_vars

\* the worker thread is scheduled again and again; its readline() returns or
\* raises within the port's read timeout
SpecShutdown == InitWorker /\ [][NextWorker]_vars /\ WF_vars(_receive_worker_step)

----------------------------------------------------------------------------
(* Claims about the receive task and shutdown *)

\* the receive task has terminated
Terminated == worker \in {"exited", "raised"}

\* C14: on an I/O failure of the link in the receive task, reconnect closes
\* the link and makes up to ten reopen attempts; a successful reopen resumes
\* the read loop on the new link; an attempt that finds connected false ends
\* reconnect without raising; when all ten attempts have failed the task
\* ends by raising ConnectionLost, after which no line is dispatched and a
\* send that is pending or comes later, having no response to handle, ends
\* with ConnectionLost when its outer deadline expires.
C14_Reconnect ==
    /\ [](worker = "reconnect" => (port = "closed" /\ attempt <= ReopenAttempts))
    /\ [][ /\ (worker = "readline" /\ worker' = "reconnect") =>
                (port' = "closed" /\ attempt' = 0)
           /\ (worker = "reconnect" /\ connected /\ worker' = "test") =>
                (port' = "open" /\ connected')
           /\ (worker = "reconnect" /\ ~connected /\ attempt < ReopenAttempts) =>
                worker' # "raised"
           /\ (worker = "reconnect" /\ worker' = "raised") => attempt = ReopenAttempts
           /\ worker = "raised" =>
                /\ worker' = "raised"
                /\ lines_in' = lines_in
                /\ Len(responses') <= Len(responses)
           /\ ( /\ worker = "raised"
                /\ responses = <<>>
                /\ pc \in {"loop", "await", "drain"}
                /\ packet_status = 0
                /\ pc' = "raised" ) =>
                (exc' = "ConnectionLost" /\ timedout)
      ]_vars


\* C15: after shutdown has set connected to false the receive task eventually
\* terminates: it sees the flag at the loop test after its current readline
\* returns, or at the next attempt of reconnect; shutdown returns only after
\* the task has terminated, and it closes the link only after the task has
\* terminated, so the task never reads from a link that shutdown closed.
C15_Shutdown ==
    /\ (~connected) ~> Terminated
    /\ [](api \in {"shutdown_close", "shutdown_returned"} => Terminated)
    /\ [](api = "shutdown_returned" => (port = "closed" /\ ~connected))
    /\ [][ /\ Terminated => worker' = worker
           /\ (~connected /\ worker = "test") => worker' \in {"test", "exited"}
           /\ (~connected /\ worker = "readline") =>
                worker' \in {"readline", "test", "reconnect"}
           /\ (~connected /\ worker = "reconnect" /\ attempt < ReopenAttempts) =>
                worker' \in {"reconnect", "test"}
           /\ (api = "shutdown_close" /\ port' # port) => (Terminated /\ port' = "closed")
           /\ connected' # connected => (connected /\ api = "none" /\ api' = "shutdown_join")
      ]_vars

\* C15 witness: shutdown was called, the task has seen the flag and returned,
\* and shutdown has then closed the link and returned
C15_Witness ==
    /\ api = "shutdown_returned"
    /\ ~connected
    /\ worker = "exited"
    /\ port = "closed"
    /\ sends = 0
    /\ lines_in = 0

----------------------------------------------------------------------------
(* Claims about the two tasks and the response queues *)

\* the fields the response handlers work on
hfields == <<sync, errors, max_block_size, synchronized, packet_status>>

\* C16: in every interleaving of the send task and the receive task, sync,
\* errors, max_block_size, synchronized and packet_status are changed only
\* by steps of the send task: by the entry of a send, by an expired wait, or
\* by a handler run from the drain loop on the response it popped. A step of
\* the receive task at most appends one (token, tail) pair to one response
\* queue, so a response that arrives while no send drains changes none of
\* these fields until a send drains it.
C16_SendTaskOnly ==
    [][ /\ lines_in' # lines_in =>
            /\ UNCHANGED hfields
            /\ UNCHANGED <<pc, exc, timeout>>
            /\ \/ UNCHANGED <<responses, ft_responses>>
               \/ /\ \E token \in {TOK_ok, TOK_rs, TOK_ss, TOK_fe} :
                        /\ Len(responses') = Len(responses) + 1
                        /\ responses' = Append(responses, responses'[Len(responses')])
                        /\ Len(responses'[Len(responses')]) = 2
                        /\ responses'[Len(responses')][1] = token
                  /\ UNCHANGED ft_responses
               \/ /\ Len(ft_responses') = Len(ft_responses) + 1
                  /\ ft_responses' = Append(ft_responses, ft_responses'[Len(ft_responses')])
                  /\ UNCHANGED responses
        /\ pc = "loop" => UNCHANGED hfields
        /\ pc \in {"idle", "done", "raised"} =>
              UNCHANGED <<sync, errors, max_block_size, synchronized>>
        /\ (pc \in {"await", "drain"} /\ hfields' # hfields) =>
              \/ responses # <<>> /\ responses' = Tail(responses)
              \/ /\ pc = "await"
                 /\ responses = <<>>
                 /\ errors' = errors + 1
                 /\ UNCHANGED <<sync, max_block_size, synchronized, packet_status>>
      ]_vars

\* C16 witness: a stream sync has arrived while no send was draining; it is
\* queued, and the Transport is as its constructor left it
C16_Witness ==
    /\ pc = "idle"
    /\ responses = << <<TOK_ss, <<"0", ",", "2", ",", "2", ".", "0">>>> >>
    /\ sync = 0
    /\ errors = 0
    /\ max_block_size = 0
    /\ ~synchronized


\* the line connect gives to send_ascii, as written to the port
M28B1 == <<77, 50, 56, 66, 49, 10>>

\* C17: send_ascii writes line||'\n' and takes the first response it finds in
\* the Transport's response queue, whatever its token, as the
\* acknowledgement: it removes exactly that one response, applies no handler
\* to it (sync, synchronized and max_block_size stay as they are), leaves the
\* responses queued behind it in place, writes the line again after each
\* expired wait, and never raises: a failed write makes it return.
C17_SendAscii ==
    /\ [](pc \in {"ascii_loop", "ascii_await"} =>
            /\ packet_transit = M28B1
            /\ \A i \in 1..Len(port_out) : port_out[i] = M28B1
            /\ Len(port_out) = errors - call.errors
                               + (IF pc = "ascii_await" \/ packet_status = 1 THEN 1 ELSE 0)
            /\ sync = call.sync
            /\ max_block_size = call.max_block_size
            /\ packet_status = 1 =>
                 (pc = "ascii_loop" /\ processed.last # <<>> /\ ~ENABLED send_ascii_write))
    /\ [][ (pc = "ascii_loop" \/ pc = "ascii_await") =>
            /\ pc' \in {"ascii_loop", "ascii_await", "done"}
            /\ UNCHANGED <<sync, synchronized, max_block_size, block_size, protocol_version>>
            /\ (pc = "ascii_loop" /\ pc' = "ascii_await") =>
                  port_out' = Append(port_out, M28B1)
            /\ (pc = "ascii_await" /\ pc' = "ascii_loop") =>
                  \/ /\ responses = <<>>
                     /\ errors' = errors + 1
                     /\ UNCHANGED <<responses, packet_status>>
                  \/ /\ responses # <<>>
                     /\ responses' = Tail(responses)
                     /\ processed'.last = Head(responses)
                     /\ packet_status' = 1
                     /\ errors' = errors
            /\ (lines_in' = lines_in /\ responses' # responses) =>
                  (packet_status = 0 /\ responses' = Tail(responses))
      ]_vars

\* C17 witness: send_ascii has taken a stream sync as its acknowledgement
\* without applying it, and the response queued behind it is still there
C17_Witness ==
    /\ pc = "ascii_loop"
    /\ packet_status = 1
    /\ processed.last = <<TOK_ss, <<"7", ",", "5", "1", "2", ",", "2", ".", "0">>>>
    /\ responses = << <<TOK_ok, <<"0">>>> >>
    /\ ~synchronized
    /\ sync = 0
    /\ max_block_size = 0
    /\ port_out = <<M28B1, M28B1>>


\* the buffer sizes the peer advertises in its stream syncs
Advertised == {1, 512}

\* C19: whenever connect (send_ascii("M28B1"), then the control send of type
\* 1) returns normally, a stream sync has been handled: synchronized is true
\* and max_block_size is a value the peer advertised, whatever responses the
\* peer has sent during the bootstrap and in whatever order.
C19_ConnectSynchronized ==
    api = "connect_returned" =>
        /\ synchronized
        /\ max_block_size \in Advertised


----------------------------------------------------------------------------
(* Claims about the two response queues *)

\* the tokens Protocol.__init__ registers
TransportTokens == {TOK_ok, TOK_rs, TOK_ss, TOK_fe}

\* the tokens FileTransferProtocol.__init__ registers
FileTransferTokens ==
    {PFT_success, PFT_version, PFT_fail, PFT_busy, PFT_ioerror, PTF_invalid}

\* C18: every entry of the Transport response queue has a token in
\* {ok, rs, ss, fe}, every entry of the FileTransfer response queue has one of
\* the six registered file-transfer tokens, and a received line is appended to
\* at most one of the two queues, as one entry.
C18_QueueTokens ==
    /\ [](/\ \A i \in 1..Len(responses) : responses[i][1] \in TransportTokens
          /\ \A i \in 1..Len(ft_responses) : ft_responses[i][1] \in FileTransferTokens)
    /\ [][lines_in' # lines_in =>
            \/ responses' = responses /\ ft_responses' = ft_responses
            \/ /\ ft_responses' = ft_responses
               /\ Len(responses') = Len(responses) + 1
               /\ SubSeq(responses', 1, Len(responses)) = responses
            \/ /\ responses' = responses
               /\ Len(ft_responses') = Len(ft_responses) + 1
               /\ SubSeq(ft_responses', 1, Len(ft_responses)) = ft_responses]_vars

\* two lines have been received, one queued for the Transport and one for the
\* FileTransfer protocol
C18_Witness ==
    /\ lines_in = 2
    /\ Len(responses) = 1
    /\ Len(ft_responses) = 1
    /\ ft_responses[1][1] = PFT_busy


----------------------------------------------------------------------------
(* Claims about a send ended by a response handler's exception *)

\* the send has ended with an exception a response handler raised
RaisedByHandler == pc = "raised" /\ exc \in {"SynchronizationError", "FatalError"}

\* C20: the response whose handler raises SynchronizationError or FatalError is
\* popped and leaves sync alone, and nothing is written for it; once the send
\* has ended that way nothing is written and the queue keeps what was behind
\* the raising response (lines received since are added at its end) until the
\* next send, which starts with the queue as it is; and whatever a send's drain
\* finds in the queue it pops from the head, for a handler that runs against
\* the packet of that send.
C20_RaisedKeepsQueue ==
    [][/\ (pc # "raised" /\ pc' = "raised"
              /\ exc' \in {"SynchronizationError", "FatalError"}) =>
            /\ (pc = "await" \/ pc = "drain")
            /\ responses # <<>>
            /\ responses' = Tail(responses)
            /\ sync' = sync
            /\ port_out' = port_out
       /\ (RaisedByHandler /\ sends' = sends) =>
            /\ pc' = "raised"
            /\ sync' = sync
            /\ port_out' = port_out
            /\ SubSeq(responses', 1, Len(responses)) = responses
       /\ (RaisedByHandler /\ sends' # sends) =>
            /\ responses' = responses
            /\ sync' = sync
       /\ ((pc = "await" \/ pc = "drain") /\ responses # <<>> /\ lines_in' = lines_in) =>
            /\ responses' = Tail(responses)
            /\ processed'.last = Head(responses)
            /\ packet_transit' = packet_transit
            /\ port_out' = port_out]_vars

\* a send ended with FatalError on `fe1` while `ok0` was queued behind it
C20_Witness ==
    /\ RaisedByHandler
    /\ exc = "FatalError"
    /\ processed.last = <<TOK_fe, <<"1">>>>
    /\ responses = <<<<TOK_ok, <<"0">>>>>>
    /\ lines_in = 2
    /\ sync = 0

====
